---- MODULE Spec2Model ----
(***************************************************************************)
(* Fork-aware header store of electrum/blockchain.py: chain objects, the   *)
(* registry `blockchains`, the header files, the read path, verification,  *)
(* the save paths and the reorganisation by swap_with_parent.              *)
(*                                                                         *)
(* Representation.  A hash is a natural number: ZeroHash is '0'*64,        *)
(* EmptyHash is the double SHA256 of the empty string, every other hash is *)
(* an injective code of the pure header it hashes.  The field `nonce`      *)
(* stands for the pure header's version, merkle_root, timestamp and nonce, *)
(* which only feed the hash.  A file is the sequence of its 117-byte       *)
(* records; every write of the program is a whole number of records.       *)
(* A raised exception is a value: a negative number where the result is a  *)
(* number, a record [k |-> "exc"] where the result is a header.            *)
(***************************************************************************)
EXTENDS Integers, Sequences, FiniteSets, TLC

\* ------------------------------------------------------------------ bounds
\* headers per chunk (the program's chunks hold 2016 headers)
ChunkSize == 2
\* len(constants.net.CHECKPOINTS)
NumCheckpoints == 1
\* heights above the last checkpoint that the inputs reach
ExtraHeights == 2
\* chain objects constructed in one run
MaxChains == 3
\* the pure headers offered per height and predecessor are nonce 1..MaxNonce
\* (a real header is never 80 zero bytes)
MaxNonce == 2
\* operations that change the store in one run
MaxOps == 6
\* difficulty.NUM_BLOCKS: headers per algorithm in a checkpoint (24 in the
\* program)
NUM_BLOCKS == 1
\* stands for 2**256 in chainwork_of_header
WorkSpace == 1073741824

max_checkpoint == NumCheckpoints * ChunkSize - 1
MaxHeight == max_checkpoint + ExtraHeights
Heights == 0..MaxHeight

\* constants.net.TESTNET
TESTNET == FALSE

\* powdata.ALGO_SHA256D, powdata.ALGO_NEOSCRYPT
ALGO_SHA256D == 1
ALGO_NEOSCRYPT == 2
Algos == {ALGO_SHA256D, ALGO_NEOSCRYPT}

\* ------------------------------------------------------------ exceptions
MissingHeader == -1
OtherException == -2
Raised(x) == x < 0

\* a local variable: x is computed once and F reads it
With(x, F(_)) == F(x)

NoneHeader == [k |-> "none"]
Exc(e) == [k |-> "exc", e |-> e]
IsHeader(x) == x.k = "hdr"
IsExc(x) == x.k = "exc"

\* ---------------------------------------------------------------- hashing
ZeroHash == 0
EmptyHash == 1

\* hash_encode(sha256d(bfh(header))): injective on the 80 bytes of a pure
\* header; the empty byte string hashes to EmptyHash
hash_raw_header(raw) ==
    IF raw = <<>> THEN EmptyHash
    ELSE 2 + raw[2] + (MaxNonce + 1) * (raw[3] + 2 * raw[1])

\* the 80 bytes of the pure header: prev_block_hash, the hashed rest, bits
serialize_pure_header(header) ==
    <<header.prev_block_hash, header.nonce, header.bits>>

hash_header(header) ==
    IF header.k = "none" THEN ZeroHash
    ELSE hash_raw_header(serialize_pure_header(header))

\* ------------------------------------------------------------- disk codec
\* a record of 117 zero bytes
ZeroRecord ==
    [prev_block_hash |-> 0, nonce |-> 0, bits |-> 0,
     algo |-> 0, pbits |-> 0, chainwork |-> 0]

\* pure header, powdata.serialize_base (algo and bits, the proof is
\* stripped), chainwork
serialize_disk_header(header) ==
    [prev_block_hash |-> header.prev_block_hash, nonce |-> header.nonce,
     bits |-> header.bits, algo |-> header.algo, pbits |-> header.pbits,
     chainwork |-> header.chainwork]

deserialize_disk_header(s, height) ==
    [k |-> "hdr", block_height |-> height,
     prev_block_hash |-> s.prev_block_hash, nonce |-> s.nonce,
     bits |-> s.bits, algo |-> s.algo, pbits |-> s.pbits,
     proof |-> "none", chainwork |-> s.chainwork]

\* the first 80 bytes of a record
PureBytes(rec) == <<rec.prev_block_hash, rec.nonce, rec.bits>>

\* ------------------------------------------------------------ compact bits
\* bytes of the 64 hex digits of "%064x"
HexBytes == 32

RECURSIVE Pow256(_)
Pow256(n) == IF n <= 0 THEN 1 ELSE 256 * Pow256(n - 1)

bits_to_target(bits) ==
    LET bitsN == (bits \div 16777216) % 256
        bitsBase == bits % 16777216
    IN  IF ~(3 <= bitsN /\ bitsN <= 32) THEN OtherException
        ELSE IF ~(32768 <= bitsBase /\ bitsBase <= 8388607) THEN OtherException
        ELSE bitsBase * Pow256(bitsN - 3)

\* the two checks of bits_to_target pass
ValidBits(bits) ==
    LET bitsN == (bits \div 16777216) % 256
        bitsBase == bits % 16777216
    IN  /\ 3 <= bitsN /\ bitsN <= 32
        /\ 32768 <= bitsBase /\ bitsBase <= 8388607

Zeros(n) == [i \in 1..n |-> 0]

\* "%064x" % bits_to_target(bits), two hex digits per element: the bytes of
\* bitsBase << (8 * (bitsN-3)), the most significant first
bits_to_target_hex(bits) ==
    LET bitsN == (bits \div 16777216) % 256
        bitsBase == bits % 16777216
    IN  Zeros(HexBytes - bitsN)
        \o <<bitsBase \div 65536, (bitsBase \div 256) % 256, bitsBase % 256>>
        \o Zeros(bitsN - 3)

\* "%064x" % target for the numbers of the model, two hex digits per element
RECURSIVE Hex64From(_, _)
Hex64From(target, n) ==
    IF n = 0 THEN <<>>
    ELSE Append(Hex64From(target \div 256, n - 1), target % 256)

Hex64(target) == Hex64From(target, HexBytes)

\* while c[:2] == '00' and len(c) > 6: c = c[2:]
RECURSIVE StripZeroBytes(_)
StripZeroBytes(c) ==
    IF c[1] = 0 /\ Len(c) > 3 THEN StripZeroBytes(Tail(c)) ELSE c

\* target_to_bits from the hex string on: [2:] drops the first two digits
target_to_bits_hex(digits) ==
    LET c == StripZeroBytes(Tail(digits))
        bitsN == Len(c)
        bitsBase == c[1] * 65536 + c[2] * 256 + c[3]
    IN  IF bitsBase >= 8388608
        THEN (bitsN + 1) * 16777216 + (bitsBase \div 256)
        ELSE bitsN * 16777216 + bitsBase

target_to_bits(target) == target_to_bits_hex(Hex64(target))

\* ------------------------------------------------- configuration (network)
\* difficulty.algo_log2_weight
algo_log2_weight(algo) == IF algo = ALGO_NEOSCRYPT THEN 1 ELSE 0

\* the compact bits of the easiest target of an algorithm
PowLimitBits(algo) == 50397184

RECURSIVE Pow2(_)
Pow2(n) == IF n <= 0 THEN 1 ELSE 2 * Pow2(n - 1)

\* work done by a single header
chainwork_of_header(header) ==
    LET target == bits_to_target(header.pbits)
    IN  IF Raised(target) THEN OtherException
        ELSE (((WorkSpace - target - 1) \div (target + 1)) + 1)
               * Pow2(algo_log2_weight(header.algo))

\* The chain the checkpoints were taken from: both algorithms mine it in
\* turn, NEOSCRYPT with nonce MaxNonce and SHA256D with nonce 1.
CanonicalAlgo(h) == IF h % 2 = 0 THEN ALGO_NEOSCRYPT ELSE ALGO_SHA256D

RECURSIVE CanonicalHeader(_)
CanonicalHeader(h) ==
    LET prev == IF h = 0 THEN ZeroHash ELSE hash_header(CanonicalHeader(h - 1))
        base == [k |-> "hdr", block_height |-> h, prev_block_hash |-> prev,
                 nonce |-> IF CanonicalAlgo(h) = ALGO_NEOSCRYPT THEN MaxNonce
                           ELSE 1,
                 bits |-> 0, algo |-> CanonicalAlgo(h),
                 pbits |-> PowLimitBits(CanonicalAlgo(h)), proof |-> "none",
                 chainwork |-> 0]
        before == IF h = 0 THEN 0 ELSE CanonicalHeader(h - 1).chainwork
    IN  [base EXCEPT !.chainwork = before + chainwork_of_header(base)]

\* constants.net.GENESIS
GENESIS == hash_header(CanonicalHeader(0))

RECURSIVE AlgoHeadersUpTo(_, _)
AlgoHeadersUpTo(a, h) ==
    IF h < 0 THEN <<>>
    ELSE IF CanonicalAlgo(h) = a
    THEN Append(AlgoHeadersUpTo(a, h - 1),
                [k |-> "data", height |-> h, bits |-> CanonicalHeader(h).pbits])
    ELSE AlgoHeadersUpTo(a, h - 1)

\* constants.net.CHECKPOINTS[index]: hash and chainwork of the last header of
\* chunk index, and per algorithm the difficulty data (height, bits) of the
\* last headers of that algorithm up to it, ascending
CHECKPOINTS(index) ==
    LET last == (index + 1) * ChunkSize - 1
    IN  [hash |-> hash_header(CanonicalHeader(last)),
         chainwork |-> CanonicalHeader(last).chainwork,
         algo_headers |-> [a \in Algos |-> AlgoHeadersUpTo(a, last)]]

\* ------------------------------------------------------------------ store
\* A store is [chains, files, blockchains, log]:
\*   chains       the Blockchain objects, by object number; parent 0 is None,
\*                _prev_hash -1 is None
\*   files        the files of headers_dir by name
\*   blockchains  the registry, forkpoint hash -> object number
\*   log          the calls of _swap_with_parent made by the running operation
BestFile == <<0, 0, 0>>
PathError == <<-1, -1, -1>>

\* lstrip('0') of a 64-digit hash: the digits without the leading zeros
lstrip0(hash) == hash

path(w, c) ==
    LET self == w.chains[c]
    IN  IF self.parent = 0 THEN BestFile
        ELSE IF ~(self.forkpoint > 0) THEN PathError
        ELSE <<self.forkpoint, lstrip0(self._prev_hash), lstrip0(self._forkpoint_hash)>>

exists(w, name) == name \in DOMAIN w.files

size(w, c) == w.chains[c]._size

height(w, c) == w.chains[c].forkpoint + size(w, c) - 1

\* os.path.getsize(p)//DISK_HEADER_SIZE if os.path.exists(p) else 0
update_size(w, c) ==
    LET p == path(w, c)
    IN  [w EXCEPT !.chains[c]._size =
            IF exists(w, p) THEN Len(w.files[p]) ELSE 0]

RECURSIVE read_header_from(_, _, _, _)
read_header_from(w, c, h, fuel) ==
    LET self == w.chains[c]
        name == path(w, c)
        delta == h - self.forkpoint
    IN  IF h < 0 THEN NoneHeader
        ELSE IF h < self.forkpoint
        THEN IF self.parent = 0 THEN Exc("AttributeError")
             ELSE IF fuel = 0 THEN Exc("RecursionError")
             ELSE read_header_from(w, self.parent, h, fuel - 1)
        ELSE IF h > height(w, c) THEN NoneHeader
        ELSE IF name = PathError THEN Exc("AssertionError")
        ELSE IF ~exists(w, name) THEN Exc("FileNotFoundError")
        ELSE IF Len(w.files[name]) < delta + 1 THEN Exc("ShortRead")
        ELSE IF w.files[name][delta + 1] = ZeroRecord THEN NoneHeader
        ELSE deserialize_disk_header(w.files[name][delta + 1], h)

read_header(w, c, h) == read_header_from(w, c, h, MaxChains)

is_height_checkpoint(h) ==
    h <= max_checkpoint /\ (h + 1) % ChunkSize = 0

get_hash(w, c, h) ==
    IF h = -1 THEN ZeroHash
    ELSE IF h = 0 THEN GENESIS
    ELSE IF is_height_checkpoint(h) THEN CHECKPOINTS(h \div ChunkSize).hash
    ELSE With(read_header(w, c, h), LAMBDA header :
             IF IsExc(header) THEN OtherException
             ELSE IF header = NoneHeader THEN MissingHeader
             ELSE hash_header(header))

check_hash(w, c, h, header_hash) ==
    LET got == get_hash(w, c, h)
    IN  ~Raised(got) /\ header_hash = got

\* get_chainwork(height); get_chainwork() is get_chainwork_tip
get_chainwork(w, c, h) ==
    IF h = -1 THEN 0
    ELSE With(read_header(w, c, h), LAMBDA header :
             IF IsExc(header) THEN OtherException
             ELSE IF IsHeader(header) THEN header.chainwork
             ELSE IF h <= max_checkpoint /\ h = ((h \div ChunkSize) + 1) * ChunkSize - 1
             THEN CHECKPOINTS(h \div ChunkSize).chainwork
             ELSE MissingHeader)

Max(a, b) == IF a >= b THEN a ELSE b

get_chainwork_tip(w, c) == get_chainwork(w, c, Max(0, height(w, c)))

\* ------------------------------------------------------------- difficulty
NoneData == [k |-> "none"]

\* for hdr in algo_headers[::-1]: if hdr["height"] <= h: return hdr
RECURSIVE LastAtMost(_, _, _)
LastAtMost(algo_headers, i, h) ==
    IF i = 0 THEN Exc("MissingHeader")
    ELSE IF algo_headers[i].height <= h THEN algo_headers[i]
    ELSE LastAtMost(algo_headers, i - 1, h)

\* a lookup that never reads extra_blocks
RECURSIVE difficulty_data_from_file(_, _, _, _, _)
difficulty_data_from_file(w, c, algo, h, extra_blocks) ==
    IF h < 0 THEN NoneData
    ELSE LET header == read_header(w, c, h)
         IN  IF IsExc(header) THEN header
             ELSE IF IsHeader(header)
             THEN IF header.algo = algo
                  THEN [k |-> "data", height |-> h, bits |-> header.pbits]
                  ELSE difficulty_data_from_file(w, c, algo, h - 1, extra_blocks)
             ELSE IF h > max_checkpoint THEN Exc("MissingHeader")
             ELSE IF algo \notin Algos THEN Exc("KeyError")
             ELSE LET algo_headers == CHECKPOINTS(h \div ChunkSize).algo_headers[algo]
                  IN  LastAtMost(algo_headers, Len(algo_headers), h)

RECURSIVE difficulty_data_for_block(_, _, _, _, _)
difficulty_data_for_block(w, c, algo, h, extra_blocks) ==
    IF h < 0 THEN NoneData
    ELSE LET header == IF h \in DOMAIN extra_blocks THEN extra_blocks[h]
                       ELSE read_header(w, c, h)
         IN  IF IsExc(header) THEN header
             ELSE IF IsHeader(header)
             THEN IF header.algo = algo
                  THEN [k |-> "data", height |-> h, bits |-> header.pbits]
                  ELSE difficulty_data_for_block(w, c, algo, h - 1, extra_blocks)
             ELSE IF h > max_checkpoint THEN Exc("MissingHeader")
             ELSE IF algo \notin Algos THEN Exc("KeyError")
             ELSE LET algo_headers == CHECKPOINTS(h \div ChunkSize).algo_headers[algo]
                  IN  LastAtMost(algo_headers, Len(algo_headers), h)

\* difficulty.get_target(getter, algo, height): the target of the last header
\* of the algorithm below height, the algorithm's limit when there is none
get_target(w, c, extra_blocks, algo, h) ==
    LET d == difficulty_data_for_block(w, c, algo, h - 1, extra_blocks)
    IN  IF IsExc(d)
        THEN IF d.e = "MissingHeader" THEN MissingHeader ELSE OtherException
        ELSE IF d = NoneData THEN bits_to_target(PowLimitBits(algo))
        ELSE bits_to_target(d.bits)

get_expected_target(w, c, header, extra_blocks) ==
    IF TESTNET THEN 0
    ELSE get_target(w, c, extra_blocks, header.algo, header.block_height)

\* ------------------------------------------------------------ checkpoints
\* hdrs[::-1]
RECURSIVE Reversed(_)
Reversed(q) == IF q = <<>> THEN <<>> ELSE Append(Reversed(Tail(q)), Head(q))

\* while len(hdrs) < difficulty.NUM_BLOCKS: the difficulty data of the last
\* NUM_BLOCKS headers of the algorithm at or below h, ascending, or the
\* exception raised
RECURSIVE LastAlgoHeaders(_, _, _, _, _)
LastAlgoHeaders(w, c, algo, h, hdrs) ==
    IF Len(hdrs) >= NUM_BLOCKS THEN [r |-> "ok", hdrs |-> Reversed(hdrs)]
    ELSE With(difficulty_data_for_block(w, c, algo, h, <<>>), LAMBDA next_hdr :
            IF IsExc(next_hdr) THEN [r |-> next_hdr.e]
            ELSE IF next_hdr = NoneData THEN [r |-> "AssertionError"]
            ELSE LastAlgoHeaders(w, c, algo, next_hdr.height - 1,
                                 Append(hdrs, next_hdr)))

\* the body of the loop of get_checkpoints: the entry of a window, or the
\* exception raised
CheckpointOf(w, c, index) ==
    LET h == (index + 1) * ChunkSize - 1
    IN  With(read_header(w, c, h), LAMBDA header :
        With(LastAlgoHeaders(w, c, ALGO_SHA256D, h, <<>>), LAMBDA sha :
        With(LastAlgoHeaders(w, c, ALGO_NEOSCRYPT, h, <<>>), LAMBDA neo :
            IF IsExc(header) THEN [r |-> header.e]
            ELSE IF header = NoneHeader THEN [r |-> "MissingHeader"]
            ELSE IF sha.r # "ok" THEN [r |-> sha.r]
            ELSE IF neo.r # "ok" THEN [r |-> neo.r]
            ELSE [r |-> "ok",
                  data |-> [hash |-> hash_header(header),
                            chainwork |-> header.chainwork,
                            algo_headers |-> (ALGO_SHA256D :> sha.hdrs)
                                             @@ (ALGO_NEOSCRYPT :> neo.hdrs)]])))

\* for index in range(n)
RECURSIVE checkpoints_from(_, _, _, _, _)
checkpoints_from(w, c, index, n, cp) ==
    IF index >= n THEN [r |-> "ok", cp |-> cp]
    ELSE With(CheckpointOf(w, c, index), LAMBDA entry :
            IF entry.r # "ok" THEN [r |-> entry.r]
            ELSE checkpoints_from(w, c, index + 1, n, Append(cp, entry.data)))

\* [r |-> "ok", cp |-> the list returned], or [r |-> the exception raised]
get_checkpoints(w, c) ==
    checkpoints_from(w, c, 0, height(w, c) \div ChunkSize, <<>>)

\* ----------------------------------------------------------- verification
NoHash == -1

\* powdata.verify(powdata, hash): raises unless the proof of work is valid
powdata_verify(header) == header.proof = "valid"

\* verify_header without the comparison with the expected hash
verify_header_any_hash(header, prev_hash, target, expected_header_hash, skip_auxpow) ==
    IF prev_hash # header.prev_block_hash THEN "prev hash mismatch"
    ELSE IF header.bits # 0 THEN "main header has non-zero bits"
    ELSE IF TESTNET THEN "ok"
    ELSE IF target_to_bits(target) # header.pbits THEN "bits mismatch"
    ELSE IF header.block_height <= max_checkpoint \/ skip_auxpow THEN "ok"
    ELSE IF powdata_verify(header) THEN "ok" ELSE "invalid proof of work"

\* verify_header that returns on testnet before it looks at the pure bits
verify_header_testnet_first(testnet, header, prev_hash, target, expected_header_hash, skip_auxpow) ==
    LET hash == hash_header(header)
    IN  IF expected_header_hash # NoHash /\ expected_header_hash # hash
        THEN "hash mismatches with expected"
        ELSE IF prev_hash # header.prev_block_hash THEN "prev hash mismatch"
        ELSE IF testnet THEN "ok"
        ELSE IF header.bits # 0 THEN "main header has non-zero bits"
        ELSE IF target_to_bits(target) # header.pbits THEN "bits mismatch"
        ELSE IF header.block_height <= max_checkpoint \/ skip_auxpow THEN "ok"
        ELSE IF powdata_verify(header) THEN "ok" ELSE "invalid proof of work"

\* verify_header on a network, testnet being constants.net.TESTNET: "ok", or
\* the check that raised
verify_header_net(testnet, header, prev_hash, target, expected_header_hash, skip_auxpow) ==
    LET hash == hash_header(header)
    IN  IF expected_header_hash # NoHash /\ expected_header_hash # hash
        THEN "hash mismatches with expected"
        ELSE IF prev_hash # header.prev_block_hash THEN "prev hash mismatch"
        ELSE IF header.bits # 0 THEN "main header has non-zero bits"
        ELSE IF testnet THEN "ok"
        ELSE IF target_to_bits(target) # header.pbits THEN "bits mismatch"
        ELSE IF header.block_height <= max_checkpoint \/ skip_auxpow THEN "ok"
        ELSE IF powdata_verify(header) THEN "ok" ELSE "invalid proof of work"

\* "ok", or the check that raised
verify_header(header, prev_hash, target, expected_header_hash, skip_auxpow) ==
    verify_header_net(TESTNET, header, prev_hash, target, expected_header_hash,
                      skip_auxpow)

\* "True", "False", or "Raise" when an exception leaves can_connect
can_connect(w, c, header, check_height, skip_auxpow) ==
    IF header = NoneHeader THEN "False"
    ELSE LET h == header.block_height
             prev_hash == get_hash(w, c, h - 1)
             target == get_expected_target(w, c, header, <<>>)
         IN  IF check_height /\ height(w, c) # h - 1 THEN "False"
             ELSE IF h = 0
             THEN IF hash_header(header) = GENESIS THEN "True" ELSE "False"
             ELSE IF Raised(prev_hash) THEN "False"
             ELSE IF prev_hash # header.prev_block_hash THEN "False"
             ELSE IF target = MissingHeader THEN "False"
             ELSE IF Raised(target) THEN "Raise"
             ELSE IF verify_header(header, prev_hash, target, NoHash, skip_auxpow) = "ok"
             THEN "True" ELSE "False"

\* ------------------------------------------------------------- write path
Ret(w, r) == [w |-> w, r |-> r]
Failed(res) == res.r \notin {"ok", "True", "False"}

Min(a, b) == IF a <= b THEN a ELSE b

\* f.seek(offset); f.truncate(): cut, or extend with zero bytes
Resize(f, n) ==
    [i \in 1..n |-> IF i <= Len(f) THEN f[i] ELSE ZeroRecord]

\* f.seek(offset); f.write(data): a gap past the end reads as zero bytes
Overwrite(f, offset, data) ==
    IF data = <<>> THEN f
    ELSE [i \in 1..Max(Len(f), offset + Len(data)) |->
            IF offset < i /\ i <= offset + Len(data) THEN data[i - offset]
            ELSE IF i <= Len(f) THEN f[i] ELSE ZeroRecord]

\* f.seek(offset); f.read(n): to the end of the file when n is negative
ReadAt(f, offset, n) ==
    IF n < 0 THEN SubSeq(f, offset + 1, Len(f))
    ELSE SubSeq(f, offset + 1, Min(Len(f), offset + n))

\* write that truncates whatever it is told
write_always_truncating(w, c, data, offset, truncate) ==
    LET filename == path(w, c)
    IN  IF filename = PathError THEN Ret(w, "AssertionError")
        ELSE IF ~exists(w, filename) THEN Ret(w, "FileNotFoundError")
        ELSE LET f == w.files[filename]
                 cut == IF offset # w.chains[c]._size
                        THEN Resize(f, offset) ELSE f
                 w1 == [w EXCEPT !.files[filename] = Overwrite(cut, offset, data)]
             IN  Ret(update_size(w1, c), "ok")

\* offsets and lengths count records (DISK_HEADER_SIZE bytes each)
\* write that never truncates
write_never_truncating(w, c, data, offset, truncate) ==
    LET filename == path(w, c)
    IN  IF filename = PathError THEN Ret(w, "AssertionError")
        ELSE IF ~exists(w, filename) THEN Ret(w, "FileNotFoundError")
        ELSE LET f == w.files[filename]
                 w1 == [w EXCEPT !.files[filename] = Overwrite(f, offset, data)]
             IN  Ret(update_size(w1, c), "ok")

write(w, c, data, offset, truncate) ==
    LET filename == path(w, c)
    IN  IF filename = PathError THEN Ret(w, "AssertionError")
        ELSE IF ~exists(w, filename) THEN Ret(w, "FileNotFoundError")
        ELSE LET f == w.files[filename]
                 cut == IF truncate /\ offset # w.chains[c]._size
                        THEN Resize(f, offset) ELSE f
                 w1 == [w EXCEPT !.files[filename] = Overwrite(cut, offset, data)]
             IN  Ret(update_size(w1, c), "ok")

\* ------------------------------------------------------------------- swap
Core(w) == [chains |-> w.chains, files |-> w.files, blockchains |-> w.blockchains]

Logged(w, c, res) ==
    [res EXCEPT !.w.log = Append(w.log,
        [self |-> c, parent |-> w.chains[c].parent,
         before |-> Core(w), after |-> Core(res.w), ret |-> res.r])]

get_id(w, c) == w.chains[c]._forkpoint_hash

\* blockchains.pop(id, None)
Pop(blockchains, id) ==
    [k \in DOMAIN blockchains \ {id} |-> blockchains[k]]

\* os.replace(src, dst)
Replace(files, src, dst) ==
    IF src = dst THEN files
    ELSE [n \in (DOMAIN files \ {src}) \cup {dst} |->
            IF n = dst THEN files[src] ELSE files[n]]

ExcName(x) == IF x = MissingHeader THEN "MissingHeader" ELSE "Exception"

\* a registry that keeps the old keys
UpdatePointersKeepingOld(w, c, p, child_old_id, parent_old_id) ==
    [w EXCEPT !.blockchains =
        (get_id(w, p) :> p) @@ (get_id(w, c) :> c) @@ w.blockchains]

\* "update pointers": the old ids leave the registry, the new ones enter it
UpdatePointers(w, c, p, child_old_id, parent_old_id) ==
    [w EXCEPT !.blockchains =
        (get_id(w, p) :> p) @@ (get_id(w, c) :> c)
        @@ Pop(Pop(w.blockchains, child_old_id), parent_old_id)]

\* the part of _swap_with_parent after the two early returns
DoSwap(w, c) ==
    LET self == w.chains[c]
        p == self.parent
        parent == w.chains[p]
        parent_branch_size == height(w, p) - self.forkpoint + 1
        forkpoint == self.forkpoint
        child_old_id == get_id(w, c)
        parent_old_id == get_id(w, p)
        child_old_name == path(w, c)
        parent_name == path(w, p)
        offset == forkpoint - parent.forkpoint
    IN  IF child_old_name = PathError THEN Ret(w, "AssertionError")
        ELSE IF ~exists(w, child_old_name) THEN Ret(w, "FileNotFoundError")
        ELSE IF parent_name = PathError THEN Ret(w, "AssertionError")
        ELSE IF ~exists(w, parent_name) THEN Ret(w, "FileNotFoundError")
        ELSE IF ~(forkpoint > parent.forkpoint) THEN Ret(w, "AssertionError")
        ELSE
        LET my_data == w.files[child_old_name]
            parent_data == ReadAt(w.files[parent_name], offset, parent_branch_size)
            w1 == write(w, c, parent_data, 0, TRUE).w
            w2 == write(w1, p, my_data, offset, TRUE).w
            new_parent_hash ==
                hash_raw_header(IF parent_data = <<>> THEN <<>>
                                ELSE PureBytes(parent_data[1]))
            w3 == [w2 EXCEPT
                    !.chains[c].parent = parent.parent,
                    !.chains[p].parent = c,
                    !.chains[c].forkpoint = parent.forkpoint,
                    !.chains[p].forkpoint = forkpoint,
                    !.chains[c]._forkpoint_hash = parent._forkpoint_hash,
                    !.chains[p]._forkpoint_hash = new_parent_hash,
                    !.chains[c]._prev_hash = parent._prev_hash,
                    !.chains[p]._prev_hash = self._prev_hash]
            w4 == [w3 EXCEPT !.files = Replace(w3.files, child_old_name, path(w3, p))]
            w5 == update_size(update_size(w4, c), p)
        IN  Ret(UpdatePointers(w5, c, p, child_old_id, parent_old_id), "True")

\* _swap_with_parent: "True", "False", or the exception raised
_swap_with_parent(w, c) ==
    LET self == w.chains[c]
    IN  Logged(w, c,
            IF self.parent = 0 THEN Ret(w, "False")
            ELSE With(get_chainwork_tip(w, self.parent), LAMBDA pw :
                 With(get_chainwork_tip(w, c), LAMBDA sw :
                    IF Raised(pw) THEN Ret(w, ExcName(pw))
                    ELSE IF Raised(sw) THEN Ret(w, ExcName(sw))
                    ELSE IF pw >= sw THEN Ret(w, "False")
                    ELSE DoSwap(w, c))))

\* blockchains.values() filtered by parent == self
get_direct_children(w, c) ==
    {w.blockchains[k] : k \in {j \in DOMAIN w.blockchains :
                                 w.chains[w.blockchains[j]].parent = c}}

\* for old_sibling in old_parent.get_direct_children(): ...
Reparent(w, c, old_parent) ==
    LET moved == {s \in get_direct_children(w, old_parent) :
                    check_hash(w, c, w.chains[s].forkpoint - 1, w.chains[s]._prev_hash)}
    IN  [w EXCEPT !.chains = [s \in DOMAIN w.chains |->
            IF s \in moved THEN [w.chains[s] EXCEPT !.parent = c] ELSE w.chains[s]]]

RECURSIVE swap_loop(_, _, _)
swap_loop(w, c, cnt) ==
    LET old_parent == w.chains[c].parent
    IN  With(_swap_with_parent(w, c), LAMBDA res :
            IF res.r = "False" THEN Ret(res.w, "ok")
            ELSE IF res.r # "True" THEN res
            ELSE IF cnt + 1 > Cardinality(DOMAIN res.w.blockchains)
            THEN Ret(res.w, "Exception")
            ELSE IF \E s \in get_direct_children(res.w, old_parent) :
                        res.w.chains[s]._prev_hash = NoHash
            THEN Ret(res.w, "AssertionError")
            ELSE swap_loop(Reparent(res.w, c, old_parent), c, cnt + 1))

swap_with_parent(w, c) == swap_loop(w, c, 0)

\* ------------------------------------------------------------- save paths
\* save_header without the assertion delta == self.size()
save_header_anywhere(w, c, header) ==
    LET h == header.block_height
        before == get_chainwork(w, c, h - 1)
        work == chainwork_of_header(header)
        delta == h - w.chains[c].forkpoint
        data == <<serialize_disk_header([header EXCEPT !.chainwork = before + work])>>
    IN  IF Raised(before) THEN Ret(w, ExcName(before))
        ELSE IF Raised(work) THEN Ret(w, "Exception")
        ELSE LET res == write(w, c, data, delta, TRUE)
             IN  IF Failed(res) THEN res ELSE swap_with_parent(res.w, c)

\* save_header storing the work of the header alone
save_header_own_work(w, c, header) ==
    LET h == header.block_height
        before == get_chainwork(w, c, h - 1)
        work == chainwork_of_header(header)
        delta == h - w.chains[c].forkpoint
        data == <<serialize_disk_header([header EXCEPT !.chainwork = work])>>
    IN  IF Raised(before) THEN Ret(w, ExcName(before))
        ELSE IF Raised(work) THEN Ret(w, "Exception")
        ELSE IF delta # size(w, c) THEN Ret(w, "AssertionError")
        ELSE LET res == write(w, c, data, delta, TRUE)
             IN  IF Failed(res) THEN res ELSE swap_with_parent(res.w, c)

\* save_header up to self.write(data, delta*DISK_HEADER_SIZE)
save_header_write(w, c, header) ==
    LET h == header.block_height
        before == get_chainwork(w, c, h - 1)
        work == chainwork_of_header(header)
        delta == h - w.chains[c].forkpoint
        data == <<serialize_disk_header([header EXCEPT !.chainwork = before + work])>>
    IN  IF Raised(before) THEN Ret(w, ExcName(before))
        ELSE IF Raised(work) THEN Ret(w, "Exception")
        ELSE IF delta # size(w, c) THEN Ret(w, "AssertionError")
        ELSE write(w, c, data, delta, TRUE)

save_header(w, c, header) ==
    LET h == header.block_height
        before == get_chainwork(w, c, h - 1)
        work == chainwork_of_header(header)
        delta == h - w.chains[c].forkpoint
        data == <<serialize_disk_header([header EXCEPT !.chainwork = before + work])>>
    IN  IF Raised(before) THEN Ret(w, ExcName(before))
        ELSE IF Raised(work) THEN Ret(w, "Exception")
        ELSE IF delta # size(w, c) THEN Ret(w, "AssertionError")
        ELSE LET res == write(w, c, data, delta, TRUE)
             IN  IF Failed(res) THEN res ELSE swap_with_parent(res.w, c)

\* chunk[n:]
Drop(chunk, n) == SubSeq(chunk, n + 1, Len(chunk))

RECURSIVE save_chunk_from(_, _, _, _, _)
save_chunk_from(w, c, index, chunk, fuel) ==
    LET chunk_within_checkpoint_region == index < NumCheckpoints
        delta_height == index * ChunkSize - w.chains[c].forkpoint
    IN  IF index < 0 THEN Ret(w, "AssertionError")
        ELSE IF chunk_within_checkpoint_region /\ w.chains[c].parent # 0
        THEN IF GENESIS \notin DOMAIN w.blockchains THEN Ret(w, "KeyError")
             ELSE IF fuel = 0 THEN Ret(w, "RecursionError")
             ELSE save_chunk_from(w, w.blockchains[GENESIS], index, chunk, fuel - 1)
        ELSE LET res == IF delta_height < 0
                        THEN write(w, c, Drop(chunk, -delta_height), 0,
                                   ~chunk_within_checkpoint_region)
                        ELSE write(w, c, chunk, delta_height,
                                   ~chunk_within_checkpoint_region)
             IN  IF Failed(res) THEN res ELSE swap_with_parent(res.w, c)

\* save_chunk that writes nothing
save_chunk_writing_nothing(w, c, index, chunk) == Ret(w, "ok")

save_chunk(w, c, index, chunk) == save_chunk_from(w, c, index, chunk, MaxChains)

\* deserialize_full_header: the height comes from the position in the chunk;
\* bytes that do not parse raise
deserialize_full_header(item, h) ==
    IF item.k # "hdr" THEN Exc("InvalidHeader")
    ELSE [item EXCEPT !.block_height = h]

\* the loop of verify_chunk with a difficulty lookup that sees the file only
RECURSIVE verify_from_file_only(_, _, _, _, _, _, _, _, _)
verify_from_file_only(w, c, index, data, i, prev_hash, work, earlier_blocks, stripped) ==
    IF i >= Len(data) THEN [r |-> "ok", data |-> stripped]
    ELSE
    LET h == index * ChunkSize + i
        header == deserialize_full_header(data[i + 1], h)
        own == chainwork_of_header(header)
        done == [header EXCEPT !.chainwork = work + own]
    IN  With(get_hash(w, c, h), LAMBDA got :
        With(get_expected_target(w, c, header, <<>>), LAMBDA target :
            IF got = OtherException THEN [r |-> "Exception"]
            ELSE IF IsExc(header) THEN [r |-> "InvalidHeader"]
            ELSE IF Raised(target) THEN [r |-> ExcName(target)]
            ELSE IF verify_header(header, prev_hash, target,
                                  IF got = MissingHeader THEN NoHash ELSE got,
                                  FALSE) # "ok"
            THEN [r |-> "Exception"]
            ELSE IF Raised(own) THEN [r |-> "Exception"]
            ELSE verify_from_file_only(w, c, index, data, i + 1, hash_header(header),
                             work + own, earlier_blocks,
                             Append(stripped, serialize_disk_header(done)))))

\* the loop of verify_chunk from position i on; the result is
\* [r |-> "ok", data |-> the disk records] or [r |-> the exception]
RECURSIVE verify_from(_, _, _, _, _, _, _, _, _)
verify_from(w, c, index, data, i, prev_hash, work, earlier_blocks, stripped) ==
    IF i >= Len(data) THEN [r |-> "ok", data |-> stripped]
    ELSE
    LET h == index * ChunkSize + i
        header == deserialize_full_header(data[i + 1], h)
        own == chainwork_of_header(header)
        done == [header EXCEPT !.chainwork = work + own]
    IN  With(get_hash(w, c, h), LAMBDA got :
        With(get_expected_target(w, c, header, earlier_blocks), LAMBDA target :
            IF got = OtherException THEN [r |-> "Exception"]
            ELSE IF IsExc(header) THEN [r |-> "InvalidHeader"]
            ELSE IF Raised(target) THEN [r |-> ExcName(target)]
            ELSE IF verify_header(header, prev_hash, target,
                                  IF got = MissingHeader THEN NoHash ELSE got,
                                  FALSE) # "ok"
            THEN [r |-> "Exception"]
            ELSE IF Raised(own) THEN [r |-> "Exception"]
            ELSE verify_from(w, c, index, data, i + 1, hash_header(header),
                             work + own, (h :> done) @@ earlier_blocks,
                             Append(stripped, serialize_disk_header(done)))))

verify_chunk(w, c, index, data) ==
    LET start_height == index * ChunkSize
        prev_hash == get_hash(w, c, start_height - 1)
        work == get_chainwork(w, c, start_height - 1)
    IN  IF Raised(prev_hash) THEN [r |-> ExcName(prev_hash)]
        ELSE IF Raised(work) THEN [r |-> ExcName(work)]
        ELSE verify_from(w, c, index, data, 0, prev_hash, work, <<>>, <<>>)

\* [w, r, verified]: r is "True" or "False"; verified tells whether
\* verify_chunk returned
connect_chunk(w, c, idx, data) ==
    IF idx < 0 THEN [w |-> w, r |-> "AssertionError", verified |-> FALSE]
    ELSE With(verify_chunk(w, c, idx, data), LAMBDA v :
        IF v.r # "ok" THEN [w |-> w, r |-> "False", verified |-> FALSE]
        ELSE With(save_chunk(w, c, idx, v.data), LAMBDA res :
                [w |-> res.w, r |-> IF Failed(res) THEN "False" ELSE "True",
                 verified |-> TRUE]))

\* ---------------------------------------------------------------- forking
\* Blockchain.__init__ without the check against max_checkpoint
NewChainAnywhere(w, forkpoint, parent, forkpoint_hash, prev_hash) ==
    LET c == Len(w.chains) + 1
        made == [forkpoint |-> forkpoint, parent |-> parent,
                 _forkpoint_hash |-> forkpoint_hash, _prev_hash |-> prev_hash,
                 _size |-> 0]
        w1 == [w EXCEPT !.chains = Append(w.chains, made)]
    IN  IF path(w1, c) = PathError THEN Ret(w, "AssertionError")
        ELSE Ret(update_size(w1, c), "ok")

\* Blockchain.__init__: the new object, or the exception raised
NewChain(w, forkpoint, parent, forkpoint_hash, prev_hash) ==
    LET c == Len(w.chains) + 1
        made == [forkpoint |-> forkpoint, parent |-> parent,
                 _forkpoint_hash |-> forkpoint_hash, _prev_hash |-> prev_hash,
                 _size |-> 0]
        w1 == [w EXCEPT !.chains = Append(w.chains, made)]
    IN  IF 0 < forkpoint /\ forkpoint <= max_checkpoint THEN Ret(w, "Exception")
        ELSE IF path(w1, c) = PathError THEN Ret(w, "AssertionError")
        ELSE Ret(update_size(w1, c), "ok")

\* an object that nothing refers to is gone
Referenced(w, c) ==
    \/ \E k \in DOMAIN w.blockchains : w.blockchains[k] = c
    \/ \E d \in DOMAIN w.chains : w.chains[d].parent = c

Collect(w, c) ==
    IF c = Len(w.chains) /\ ~Referenced(w, c)
    THEN [w EXCEPT !.chains = SubSeq(w.chains, 1, c - 1)]
    ELSE w

fork(w, parent, header) ==
    LET forkpoint == header.block_height
        made == NewChain(w, forkpoint, parent, hash_header(header),
                         get_hash(w, parent, forkpoint - 1))
        self == Len(w.chains) + 1
    IN  IF can_connect(w, parent, header, FALSE, FALSE) # "True"
        THEN Ret(w, "Exception")
        ELSE IF Failed(made) THEN made
        ELSE IF ~exists(made.w, path(made.w, parent))
        THEN Ret(w, "FileNotFoundError")
        ELSE LET w1 == [made.w EXCEPT !.files =
                            (path(made.w, self) :> <<>>) @@ made.w.files]
                 res == save_header(w1, self, header)
             IN  IF Failed(res) THEN Ret(Collect(res.w, self), res.r)
                 ELSE Ret([res.w EXCEPT !.blockchains =
                             (get_id(res.w, self) :> self) @@ res.w.blockchains],
                          "ok")

\* ---------------------------------------------------------------- startup
get_best_chain(w) == w.blockchains[GENESIS]

\* the fork files of headers_dir/forks
ForkFiles(w) == DOMAIN w.files \ {BestFile}

\* for parent in blockchains.values(): the first chain, in the order of
\* registration, that holds prev_hash below forkpoint; 0 when there is none
FindParent(w, forkpoint, prev_hash) ==
    LET found == {c \in {w.blockchains[k] : k \in DOMAIN w.blockchains} :
                    check_hash(w, c, forkpoint - 1, prev_hash)}
    IN  IF found = {} THEN 0
        ELSE CHOOSE c \in found : \A d \in found : c <= d

\* delete_chain
Unlink(w, filename) ==
    [w EXCEPT !.files = [n \in DOMAIN w.files \ {filename} |-> w.files[n]]]

\* A record of the file has no proof of work (serialize_base), and line 201
\* does not skip the proof: whether powdata.verify takes such a header is
\* decided by the powdata module; proofless is its answer.
instantiate_chain(w, filename, proofless) ==
    LET forkpoint == filename[1]
        prev_hash == filename[2]
        first_hash == filename[3]
        b == Len(w.chains) + 1
    IN  IF forkpoint <= max_checkpoint THEN Ret(Unlink(w, filename), "ok")
        ELSE
        With(FindParent(w, forkpoint, prev_hash), LAMBDA parent :
            IF parent = 0 THEN Ret(Unlink(w, filename), "ok")
            ELSE
            With(NewChain(w, forkpoint, parent, first_hash, prev_hash), LAMBDA made :
            With(read_header(made.w, b, forkpoint), LAMBDA h :
                IF IsExc(h) THEN Ret(w, "Exception")
                ELSE IF first_hash # hash_header(h)
                THEN Ret(Unlink(w, filename), "ok")
                ELSE
                With(can_connect(made.w, parent, h, FALSE, proofless),
                     LAMBDA connects :
                    IF connects = "Raise" THEN Ret(w, "KeyError")
                    ELSE IF connects # "True" THEN Ret(Unlink(w, filename), "ok")
                    ELSE Ret([made.w EXCEPT !.blockchains =
                                (first_hash :> b) @@ made.w.blockchains],
                             "ok")))))

\* for filename in l, l sorted by forkpoint
RECURSIVE instantiate_all(_, _, _)
instantiate_all(w, names, proofless) ==
    IF names = {} THEN Ret(w, "ok")
    ELSE With(CHOOSE x \in names : \A y \in names : x[1] <= y[1], LAMBDA n :
         With(instantiate_chain(w, n, proofless), LAMBDA res :
             IF Failed(res) THEN res
             ELSE instantiate_all(res.w, names \ {n}, proofless)))

read_blockchains(w, proofless) ==
    With(NewChain(w, 0, 0, GENESIS, NoHash).w, LAMBDA made :
    With([made EXCEPT !.blockchains = (GENESIS :> 1) @@ made.blockchains], LAMBDA w1 :
    With(read_header(w1, 1, max_checkpoint + 1), LAMBDA header_after_cp :
    With(IF IsHeader(header_after_cp)
         THEN can_connect(w1, 1, header_after_cp, FALSE, TRUE)
         ELSE "False", LAMBDA connects :
        IF height(w1, 1) > max_checkpoint /\ connects = "Raise"
        THEN Ret(w1, "KeyError")
        ELSE With(IF height(w1, 1) > max_checkpoint /\ connects # "True"
                  THEN update_size(Unlink(w1, BestFile), 1)
                  ELSE w1,
                  LAMBDA w2 : instantiate_all(w2, ForkFiles(w2), proofless))))))

\* init_headers_file_for_best_chain
init_headers_file_for_best_chain(w) ==
    LET b == get_best_chain(w)
        filename == path(w, b)
        length == NumCheckpoints * ChunkSize
        w1 == IF ~exists(w, filename) \/ Len(w.files[filename]) < length
              THEN [w EXCEPT !.files =
                      (filename :> [i \in 1..length |-> ZeroRecord]) @@ w.files]
              ELSE w
    IN  update_size(w1, b)

\* ------------------------------------------------------------------ state
VARIABLES
    chains,       \* the Blockchain objects
    files,        \* headers_dir
    blockchains,  \* the registry
    last          \* the operation that ran last: op its name, chain its object,
                  \* r what it returned or raised, log its calls of
                  \* _swap_with_parent, verified whether its verify_chunk
                  \* returned; at is the height of the first header given,
                  \* data the pure headers given, from the first height at
                  \* or above the forkpoint of the chain that stored them
                  \* (of a chunk only when connect_chunk returned True),
                  \* given the header that save_header or fork was given;
                  \* proofless what powdata.verify answered read_blockchains;
                  \* n counts the operations that changed the store, same
                  \* tells that the last one left the store as it was
VARIABLES
    prog,         \* per thread, the lock steps its running call has left
    held          \* per lock, the thread that owns it and how often (RLock)
VARIABLES
    calc          \* a computation on compact bits: its input and its results
VARIABLES
    run           \* a swap_with_parent that runs statement by statement: pc the
                  \* statement it stands before, self the chain, cnt and loc its
                  \* locals, start the store when _swap_with_parent decided to
                  \* swap, read what another thread read meanwhile

vars == <<chains, files, blockchains, last, prog, held, calc, run>>

World == [chains |-> chains, files |-> files, blockchains |-> blockchains,
          log |-> <<>>]

Objects == DOMAIN chains

Install(w) ==
    /\ chains' = w.chains
    /\ files' = w.files
    /\ blockchains' = w.blockchains
    /\ UNCHANGED <<prog, held, calc>>

NoArg == [at |-> -1, data |-> <<>>, from |-> -1, given |-> <<>>]

Record(op, c, res, verified, arg) ==
    /\ Install(res.w)
    /\ last' = [op |-> op, chain |-> c, r |-> res.r, log |-> res.w.log,
                verified |-> verified,
                at |-> arg.at, data |-> arg.data, from |-> arg.from,
                given |-> arg.given,
                proofless |-> "proofless" \in DOMAIN arg /\ arg.proofless,
                same |-> Core(res.w) = Core(World),
                n |-> IF Core(res.w) = Core(World) THEN last.n
                      ELSE last.n + 1]

Done(op, c, res, verified, arg) ==
    /\ Record(op, c, res, verified, arg)
    /\ UNCHANGED run

\* ----------------------------------------------------------------- inputs
\* compact bits of a target that is not the expected one
WrongBits == PowLimitBits(ALGO_SHA256D) - 32768
BadPrev == EmptyHash

\* headers that link and verify: two per height and predecessor
Good ==
    {[nonce |-> 1, algo |-> ALGO_SHA256D, flaw |-> "none"],
     [nonce |-> MaxNonce, algo |-> ALGO_NEOSCRYPT, flaw |-> "none"]}

\* headers with one flaw: non-zero pure bits, a wrong predecessor, the wrong
\* difficulty, an invalid proof of work
Flawed ==
    [nonce : {1}, algo : {ALGO_SHA256D}, flaw : {"bits", "prev", "pbits", "proof"}]

Flavours == Good \cup Flawed

MakeHeader(h, prev_hash, fl) ==
    [k |-> "hdr", block_height |-> h,
     prev_block_hash |-> IF fl.flaw = "prev" \/ Raised(prev_hash) THEN BadPrev
                         ELSE prev_hash,
     nonce |-> fl.nonce,
     bits |-> IF fl.flaw = "bits" THEN 1 ELSE 0,
     algo |-> fl.algo,
     pbits |-> IF fl.flaw = "pbits" THEN WrongBits ELSE PowLimitBits(fl.algo),
     proof |-> IF fl.flaw = "proof" THEN "invalid" ELSE "valid",
     chainwork |-> 0]

\* a header at height h offered to chain c
HeaderFor(w, c, h, fl) == MakeHeader(h, get_hash(w, c, h - 1), fl)

\* bytes that are no header
Junk == [k |-> "junk"]

\* the headers of a chunk, each linked to the one before it
RECURSIVE BuildChunk(_, _, _)
BuildChunk(prev_hash, h, fls) ==
    IF fls = <<>> THEN <<>>
    ELSE LET header == IF fls[1] = Junk THEN Junk
                       ELSE MakeHeader(h, prev_hash, fls[1])
             next == IF fls[1] = Junk THEN BadPrev ELSE hash_header(header)
         IN  <<header>> \o BuildChunk(next, h + 1, Tail(fls))

\* chunks of up to ChunkSize good headers, and chunks whose last header is
\* flawed or junk
ChunkShapes ==
    UNION {[1..n -> Good] : n \in 0..ChunkSize}
    \cup UNION {{Append(g, b) : g \in [1..n -> Good],
                                b \in {f \in Flawed : f.flaw \in {"prev", "proof"}}
                                       \cup {Junk}} :
                n \in 0..(ChunkSize - 1)}

ChunkIndexes == 0..(MaxHeight \div ChunkSize)

ChunkFor(w, c, idx, fls) ==
    BuildChunk(get_hash(w, c, idx * ChunkSize - 1), idx * ChunkSize, fls)

\* ------------------------------------------------------------------ locks
\* The locks of a chain "C", of its parent "P" (the best chain, parent None)
\* and of the registry (blockchains_lock, "R"); all are RLocks.  A call is
\* the sequence of the lock steps it takes, in program order.
Threads == {1, 2}
ChainLocks == {"C", "P"}
Locks == ChainLocks \cup {"R"}

ParentOf(x) == IF x = "C" THEN "P" ELSE "none"

Acq(l) == [a |-> "acq", l |-> l]
Rel(l) == [a |-> "rel", l |-> l]

\* with self.lock: body  (the decorator with_lock)
with_lock(x, body) == <<Acq(x)>> \o body \o <<Rel(x)>>

\* with blockchains_lock: body
with_blockchains_lock(body) == <<Acq("R")>> \o body \o <<Rel("R")>>

L_size(x) == with_lock(x, <<>>)
L_height(x) == with_lock(x, L_size(x))
L_path(x) == with_lock(x, <<>>)
L_update_size(x) == with_lock(x, L_path(x))

\* below: the height asked for is below the forkpoint
RECURSIVE L_read_header(_, _)
L_read_header(x, below) ==
    with_lock(x, IF below /\ ParentOf(x) # "none"
                 THEN L_read_header(ParentOf(x), below)
                 ELSE L_height(x) \o L_path(x))

L_get_chainwork(x, below) == with_lock(x, L_read_header(x, below))

\* get_chainwork(): the height defaults to the tip
L_get_chainwork_tip(x) == with_lock(x, L_height(x) \o L_read_header(x, FALSE))

L_get_direct_children == with_blockchains_lock(<<>>)

L_get_parent_heights(x) == with_blockchains_lock(L_height(x))

L_get_branch_size(x) ==
    with_lock(x, L_height(x) \o L_get_direct_children)

L_write(x) == with_lock(x, L_path(x) \o L_update_size(x))

\* swaps: the chain has more chainwork than its parent
L__swap_with_parent(x, swaps) ==
    IF ParentOf(x) = "none" THEN <<>>
    ELSE L_get_chainwork_tip(ParentOf(x)) \o L_get_chainwork_tip(x)
         \o (IF swaps
              THEN L_height(ParentOf(x)) \o L_path(x) \o L_path(x)
                   \o L_path(ParentOf(x)) \o L_path(ParentOf(x))
                   \o L_write(x) \o L_write(ParentOf(x))
                   \o L_path(ParentOf(x))
                   \o L_update_size(x) \o L_update_size(ParentOf(x))
              ELSE <<>>)

\* after a swap the chain has no parent: the loop ends with the next call
L_swap_with_parent(x, swaps) ==
    <<Acq(x), Acq("R")>>
    \o L__swap_with_parent(x, swaps)
    \o (IF swaps /\ ParentOf(x) # "none" THEN L_get_direct_children ELSE <<>>)
    \o <<Rel("R"), Rel(x)>>

L_save_header(x, below, swaps) ==
    with_lock(x, L_get_chainwork(x, below) \o L_size(x) \o L_write(x)
                 \o L_swap_with_parent(x, swaps))

\* region: the chunk lies in the checkpoint region, which a chain with a
\* parent hands to the best chain
L_save_chunk(x, region, swaps) ==
    IF region /\ ParentOf(x) # "none"
    THEN with_lock(x, with_lock("P", L_write("P") \o L_swap_with_parent("P", FALSE)))
    ELSE with_lock(x, L_write(x) \o L_swap_with_parent(x, swaps))

LockOps ==
    {"save_header", "save_chunk", "read_header", "get_chainwork",
     "get_parent_heights", "get_branch_size"}

Program(op, x, flag, swaps) ==
    CASE op = "save_header" -> L_save_header(x, flag, swaps)
      [] op = "save_chunk" -> L_save_chunk(x, flag, swaps)
      [] op = "read_header" -> L_read_header(x, flag)
      [] op = "get_chainwork" -> L_get_chainwork(x, flag)
      [] op = "get_parent_heights" -> L_get_parent_heights(x)
      [] op = "get_branch_size" -> L_get_branch_size(x)

Free == [owner |-> 0, depth |-> 0]

\* ---------------------------------------------------------------- actions
\* The next operation is taken from a state that the last operation changed:
NoRead == [op |-> "none"]

\* no swap_with_parent is running
Idle ==
    [pc |-> "idle", self |-> 0, cnt |-> 0, loc |-> <<>>, start |-> <<>>,
     read |-> NoRead]

\* an operation that left the store as it was leads to nothing that the
\* state before it does not lead to.  At most MaxOps operations change the
\* store.  A process whose read_blockchains raised has not started.
Ready ==
    /\ run.pc = "idle"
    /\ ~last.same
    /\ last.n < MaxOps
    /\ ~(last.op = "read_blockchains" /\ Failed([r |-> last.r]))

Init ==
    /\ chains = <<>>
    /\ files = <<>>
    /\ blockchains = <<>>
    /\ last = [op |-> "none", chain |-> 0, r |-> "ok", log |-> <<>>,
               verified |-> FALSE, at |-> -1, data |-> <<>>, from |-> -1,
               given |-> <<>>, proofless |-> FALSE, same |-> FALSE, n |-> 0]
    /\ prog = [t \in Threads |-> <<>>]
    /\ held = [l \in Locks |-> Free]
    /\ calc = [step |-> "idle"]
    /\ run = Idle

\* the process starts (again) on the headers_dir as it is: the registry of the
\* new process is empty, read_blockchains fills it
ReadBlockchains ==
    /\ Ready
    /\ \E proofless \in BOOLEAN :
        Done("read_blockchains", 1,
             read_blockchains([World EXCEPT !.chains = <<>>,
                                            !.blockchains = <<>>], proofless),
             FALSE, [proofless |-> proofless] @@ NoArg)

InitHeadersFile ==
    /\ Ready
    /\ GENESIS \in DOMAIN blockchains
    /\ Done("init_headers_file", get_best_chain(World),
            Ret(init_headers_file_for_best_chain(World), "ok"), FALSE, NoArg)

\* save_header is given a header that links to the chain at some height
SaveHeader ==
    /\ Ready
    /\ \E c \in Objects, h \in Heights, fl \in Good :
        LET header == HeaderFor(World, c, h, fl)
        IN  Done("save_header", c, save_header(World, c, header), FALSE,
                 [at |-> h, from |-> h, given |-> <<header>>,
                  data |-> <<PureBytes(serialize_disk_header(header))>>])

\* the chain that stores a chunk given to chain c
Storer(w, c, idx) ==
    IF idx < NumCheckpoints /\ w.chains[c].parent # 0 /\ GENESIS \in DOMAIN w.blockchains
    THEN get_best_chain(w) ELSE c

ConnectChunk ==
    /\ Ready
    /\ \E c \in Objects, idx \in ChunkIndexes, fls \in ChunkShapes :
        With(ChunkFor(World, c, idx, fls), LAMBDA data :
        With(connect_chunk(World, c, idx, data), LAMBDA res :
            Done("connect_chunk", c, res, res.verified,
                 IF res.r # "True" THEN NoArg
                 ELSE [at |-> idx * ChunkSize, given |-> <<>>,
                       from |-> Max(idx * ChunkSize,
                                    chains[Storer(World, c, idx)].forkpoint),
                       data |-> [i \in DOMAIN data |->
                                   PureBytes(serialize_disk_header(data[i]))]])))

Fork ==
    /\ Ready
    /\ Len(chains) < MaxChains
    /\ \E c \in Objects, h \in Heights, fl \in Flavours :
        With(HeaderFor(World, c, h, fl), LAMBDA header :
            Done("fork", c, fork(World, c, header), FALSE,
                 [at |-> h, from |-> h, given |-> <<header>>,
                  data |-> <<PureBytes(serialize_disk_header(header))>>]))

\* forks/ holds a file that this process did not write (an earlier run, a
\* copied data directory): one record, at or above the last checkpoint, named
\* after the header it holds or with another first hash
LeftForkpoints == {max_checkpoint, max_checkpoint + 1}

\* an algorithm the checkpoints hold no difficulty data for
UnknownAlgo == ALGO_NEOSCRYPT + 1

LeftFlavours ==
    {f \in Flavours : f.nonce = 1 /\ f.flaw \in {"none", "prev", "pbits"}}
    \cup {[nonce |-> 1, algo |-> UnknownAlgo, flaw |-> "none"]}

LeftFile ==
    /\ Ready
    /\ GENESIS \in DOMAIN blockchains
    /\ ForkFiles(World) = {}
    /\ \E fp \in LeftForkpoints, fl \in LeftFlavours, named \in BOOLEAN :
        With(HeaderFor(World, get_best_chain(World), fp, fl), LAMBDA header :
        With(IF named THEN hash_header(header) ELSE ZeroHash, LAMBDA first :
        With(<<fp, lstrip0(header.prev_block_hash), lstrip0(first)>>, LAMBDA name :
            Done("left_file", 0,
                 Ret([World EXCEPT !.files =
                        (name :> <<serialize_disk_header(header)>>) @@ files],
                     "ok"),
                 FALSE, NoArg))))

Next ==
    \/ ReadBlockchains
    \/ InitHeadersFile
    \/ SaveHeader
    \/ ConnectChunk
    \/ Fork
    \/ LeftFile

Spec == Init /\ [][Next]_vars

\* ----------------------------------------------------- concurrent callers
\* Two threads call the locking operations on a chain and on its parent;
\* the store is not looked at.
Call(t) ==
    /\ prog[t] = <<>>
    /\ \E op \in LockOps, x \in ChainLocks, flag \in BOOLEAN, swaps \in BOOLEAN :
        prog' = [prog EXCEPT ![t] = Program(op, x, flag, swaps)]
    /\ UNCHANGED <<chains, files, blockchains, last, held, calc, run>>

\* RLock.acquire: blocks while another thread owns the lock
Acquire(t) ==
    /\ prog[t] # <<>>
    /\ Head(prog[t]).a = "acq"
    /\ LET l == Head(prog[t]).l
       IN  /\ held[l].owner \in {0, t}
           /\ held' = [held EXCEPT ![l] = [owner |-> t, depth |-> held[l].depth + 1]]
    /\ prog' = [prog EXCEPT ![t] = Tail(prog[t])]
    /\ UNCHANGED <<chains, files, blockchains, last, calc, run>>

Release(t) ==
    /\ prog[t] # <<>>
    /\ Head(prog[t]).a = "rel"
    /\ LET l == Head(prog[t]).l
       IN  held' = [held EXCEPT ![l] = IF held[l].depth = 1 THEN Free
                                       ELSE [held[l] EXCEPT !.depth = @ - 1]]
    /\ prog' = [prog EXCEPT ![t] = Tail(prog[t])]
    /\ UNCHANGED <<chains, files, blockchains, last, calc, run>>

NextLocks ==
    \/ \E t \in Threads : Call(t)
    \/ \E t \in Threads : Acquire(t)
    \/ \E t \in Threads : Release(t)

SpecLocks == Init /\ [][NextLocks]_vars

\* ------------------------------------------------------------ compact bits
\* exponent bytes and mantissas around the limits that bits_to_target checks
Exponents == 2..33
Mantissas ==
    {32767, 32768, 32769, 65535, 65536, 65537, 8388606, 8388607, 8388608}
BitsInputs == {e * 16777216 + m : e \in Exponents, m \in Mantissas}

\* a compact value is given
AskBits ==
    /\ calc.step = "idle"
    /\ \E bits \in BitsInputs : calc' = [step |-> "asked", bits |-> bits]
    /\ UNCHANGED <<chains, files, blockchains, last, prog, held, run>>

\* bits_to_target(bits): the target as hex digits, or the exception
BitsToTarget ==
    /\ calc.step = "asked"
    /\ calc' = IF ValidBits(calc.bits)
               THEN [step |-> "target", bits |-> calc.bits,
                     target |-> bits_to_target_hex(calc.bits)]
               ELSE [step |-> "raised", bits |-> calc.bits]
    /\ UNCHANGED <<chains, files, blockchains, last, prog, held, run>>

\* target_to_bits(target)
TargetToBits ==
    /\ calc.step = "target"
    /\ calc' = [step |-> "bits", bits |-> calc.bits, target |-> calc.target,
                back |-> target_to_bits_hex(calc.target)]
    /\ UNCHANGED <<chains, files, blockchains, last, prog, held, run>>

NextCompact ==
    \/ AskBits
    \/ BitsToTarget
    \/ TargetToBits

SpecCompact == Init /\ [][NextCompact]_vars

\* ------------------------------------------------- a directory left behind
\* forks/ as another run can leave it: each file holds one header, the first
\* on the last checkpoint, the next on the header of the file before it, with
\* the chainwork that save_header stores
LeftFiles == MaxChains - 1

\* the hash and the chainwork of the header that the next file builds on
LeftTip(w) ==
    With({n \in ForkFiles(w) : n[1] = max_checkpoint + Cardinality(ForkFiles(w))},
         LAMBDA on :
        IF on = {}
        THEN [hash |-> get_hash(w, get_best_chain(w), max_checkpoint),
              chainwork |-> get_chainwork(w, get_best_chain(w), max_checkpoint)]
        ELSE With(w.files[CHOOSE n \in on : TRUE][1], LAMBDA rec :
                [hash |-> hash_raw_header(PureBytes(rec)),
                 chainwork |-> rec.chainwork]))

LeftOnTip ==
    /\ Ready
    /\ GENESIS \in DOMAIN blockchains
    /\ Cardinality(ForkFiles(World)) < LeftFiles
    /\ \A n \in ForkFiles(World) :
          Len(files[n]) = 1 /\ n[1] <= max_checkpoint + Cardinality(ForkFiles(World))
    /\ \E fl \in Good :
        With(LeftTip(World), LAMBDA tip :
        With(max_checkpoint + Cardinality(ForkFiles(World)) + 1, LAMBDA fp :
        With(MakeHeader(fp, tip.hash, fl), LAMBDA made :
        With([made EXCEPT !.chainwork =
                 tip.chainwork + chainwork_of_header(made)], LAMBDA header :
        With(<<fp, lstrip0(tip.hash), lstrip0(hash_header(header))>>, LAMBDA name :
            Done("left_file", 0,
                 Ret([World EXCEPT !.files =
                        (name :> <<serialize_disk_header(header)>>) @@ files],
                     "ok"),
                 FALSE, NoArg))))))

\* fork is given a header that extends the tip of a chain
ForkOnTip ==
    /\ Ready
    /\ Len(chains) <= MaxChains
    /\ \E c \in Objects, fl \in Good :
        With(HeaderFor(World, c, height(World, c) + 1, fl), LAMBDA header :
            Done("fork", c, fork(World, c, header), FALSE,
                 [at |-> header.block_height, from |-> header.block_height,
                  given |-> <<header>>,
                  data |-> <<PureBytes(serialize_disk_header(header))>>]))

NextLeft ==
    \/ ReadBlockchains
    \/ InitHeadersFile
    \/ LeftOnTip
    \/ ForkOnTip

SpecLeft == Init /\ [][NextLeft]_vars

\* ----------------------------------------------------------------- claims
Registered == {blockchains[k] : k \in DOMAIN blockchains}

\* the heights a read is asked for
ReadHeights == (-1)..(MaxHeight + 1)

\* the calls of _swap_with_parent of the last operation that swapped
Swaps == {i \in DOMAIN last.log : last.log[i].ret = "True"}

C2_ParentHasMostWork ==
    \A c \in Registered :
        LET sw == get_chainwork_tip(World, c)
        IN  /\ chains[c].parent # 0 =>
                 LET pw == get_chainwork_tip(World, chains[c].parent)
                 IN  (~Raised(sw) /\ ~Raised(pw)) => pw >= sw
            /\ GENESIS \in DOMAIN blockchains =>
                 LET bw == get_chainwork_tip(World, get_best_chain(World))
                 IN  (~Raised(sw) /\ ~Raised(bw)) => bw >= sw

\* the early returns of _swap_with_parent apply to the call
NoSwapCase(e) ==
    \/ e.parent = 0
    \/ LET pw == get_chainwork_tip(e.before, e.parent)
           sw == get_chainwork_tip(e.before, e.self)
       IN  ~Raised(pw) /\ ~Raised(sw) /\ pw >= sw

\* the call exchanged the two chains
Swapped(e) ==
    LET c0 == e.before.chains[e.self]
        p0 == e.before.chains[e.parent]
        c1 == e.after.chains[e.self]
        p1 == e.after.chains[e.parent]
    IN  /\ c1.parent = p0.parent
        /\ p1.parent = e.self
        /\ c1.forkpoint = p0.forkpoint
        /\ p1.forkpoint = c0.forkpoint
        /\ c1._forkpoint_hash = p0._forkpoint_hash
        /\ c1._prev_hash = p0._prev_hash
        /\ p1._prev_hash = c0._prev_hash

\* C3: _swap_with_parent returns False and changes nothing exactly when the
\* chain has no parent or the parent's chainwork is at least the chain's;
\* in every other case it swaps and returns True.
C3_SwapOrNoOp ==
    \A i \in DOMAIN last.log :
        LET e == last.log[i]
        IN  IF NoSwapCase(e)
            THEN e.ret = "False" /\ e.after = e.before
            ELSE e.ret = "True" /\ Swapped(e)

\* C4: every key of the registry maps to a chain whose get_id() is the key.
C4_RegistryKeysAreIds ==
    \A id \in DOMAIN blockchains : get_id(World, blockchains[id]) = id

C4_Witness ==
    /\ Swaps # {}
    /\ Cardinality(DOMAIN blockchains) >= 2
    /\ last.op \in {"save_header", "connect_chunk"}

\* C5: every chain with a parent finds its _prev_hash in the parent at the
\* height just below its forkpoint.
C5_ParentHoldsPrevHash ==
    \A c \in Registered :
        chains[c].parent # 0 =>
            check_hash(World, chains[c].parent, chains[c].forkpoint - 1,
                       chains[c]._prev_hash)

\* the heights of a chain's own records
OwnHeights(c) == chains[c].forkpoint..height(World, c)

\* C7 as stated: at every height of a registered chain's own records the
\* hash of the header read is the hash get_hash gives, zero records and
\* checkpoint heights included.
C7_HashOfReadIsGetHash ==
    \A c \in Registered : \A h \in OwnHeights(c) :
        LET header == read_header(World, c, h)
        IN  /\ ~IsExc(header)
            /\ hash_header(header) = get_hash(World, c, h)

\* C7 as amended: at every height of a registered chain's own records where
\* read_header returns a header, its hash is the hash get_hash gives, also
\* at height 0 and at checkpoint heights.
C7_HashOfStoredHeaderIsGetHash ==
    \A c \in Registered : \A h \in OwnHeights(c) :
        LET header == read_header(World, c, h)
        IN  IsHeader(header) => hash_header(header) = get_hash(World, c, h)

C7_Witness ==
    \E c \in Registered :
        /\ chains[c].parent = 0
        /\ \A h \in 0..max_checkpoint : IsHeader(read_header(World, c, h))
        /\ height(World, c) > max_checkpoint

StoredOwn ==
    /\ last.op \in {"save_header", "connect_chunk"}
    /\ last.r \in {"ok", "True"}
    /\ last.from = last.at
    /\ last.data # <<>>

\* the heights of the headers given that the storing chain is responsible for
StoredHeights == last.from..(last.at + Len(last.data) - 1)

ConnectFlavours ==
    Flavours \cup {[nonce |-> 1, algo |-> UnknownAlgo, flaw |-> "none"]}

\* C9: can_connect never raises, whatever header it is given.
C9_CanConnectNeverRaises ==
    \A c \in Registered, h \in 0..(MaxHeight + 1), fl \in ConnectFlavours,
       check_height \in BOOLEAN, skip_auxpow \in BOOLEAN :
        can_connect(World, c, HeaderFor(World, c, h, fl), check_height,
                    skip_auxpow) # "Raise"

\* the records a chain holds at the heights given, as pure headers
HeldAt(c, hs) ==
    \A h \in hs :
        LET header == read_header(World, c, h)
        IN  /\ IsHeader(header)
            /\ serialize_pure_header(header) = last.data[h - last.at + 1]

\* connect_chunk returned True or False; True only when verify_chunk accepted
\* every header and the chain holds the chunk from the forkpoint of the
\* storing chain on
TrueOnlyIfVerifiedAndSaved ==
    /\ last.r \in {"True", "False"}
    /\ last.r = "True" =>
          /\ last.verified
          /\ HeldAt(last.chain, StoredHeights)

\* C10: connect_chunk with idx >= 0 never raises; it returns True only if
\* verify_chunk accepted every header and the chunk was saved; when
\* verify_chunk rejects the chunk it returns False and no file, no chain
\* field and no registry entry changes.
C10_ConnectChunkContract ==
    [][last'.op = "connect_chunk" =>
         /\ TrueOnlyIfVerifiedAndSaved'
         /\ ~last'.verified =>
               (last'.r = "False" /\ UNCHANGED <<chains, files, blockchains>>)]_vars

C10_Witness ==
    /\ last.op = "connect_chunk"
    /\ last.r = "True"
    /\ Len(last.data) = ChunkSize
    /\ last.from > last.at
    /\ Swaps # {}

\* the records of the file of chain c, none when the file does not exist
FileOf(w, c) == IF exists(w, path(w, c)) THEN w.files[path(w, c)] ELSE <<>>

\* save_header was given a header at the end of the chain
AtEnd == last'.at - chains[last'.chain].forkpoint = size(World, last'.chain)

\* the file of the chain is the file it had followed by the record of H
Appended ==
    LET c == last'.chain
        old == FileOf(World, c)
        new == FileOf(World', c)
    IN  /\ size(World', c) = size(World, c) + 1
        /\ Len(new) = Len(old) + 1
        /\ SubSeq(new, 1, Len(old)) = old
        /\ PureBytes(new[Len(new)]) = last'.data[1]

\* the file and the size of the chain are what they were
Untouched ==
    /\ FileOf(World', last'.chain) = FileOf(World, last'.chain)
    /\ size(World', last'.chain) = size(World, last'.chain)

\* C11 as stated: save_header on a chain whose file exists writes only at
\* the end of the chain; there the size grows by exactly one, the earlier
\* records stay and the new record is H; at any other height it fails and
\* leaves file and size unchanged.
C11_SaveHeaderAppendOnly ==
    [][(last'.op = "save_header" /\ exists(World, path(World, last'.chain))) =>
         IF AtEnd THEN Appended
         ELSE Failed([r |-> last'.r]) /\ Untouched]_vars

\* the chain ends one header higher, at H, and reads below H as before
Extended ==
    LET c == last'.chain
        header == read_header(World', c, last'.at)
    IN  /\ height(World', c) = height(World, c) + 1
        /\ height(World', c) = last'.at
        /\ IsHeader(header)
        /\ serialize_pure_header(header) = last'.data[1]
        /\ \A h \in 0..(last'.at - 1) :
               read_header(World', c, h) = read_header(World, c, h)

\* C11 as amended: save_header changes files only when H is at the end of
\* the chain; when it returns, the chain ends one header higher, at H, and
\* reads at every earlier height as before; when it returns without having
\* swapped, the size grew by exactly one and the file is the old file
\* followed by H; at any other height it fails and no file, no chain field
\* and no registry entry changes.
C11_SaveHeaderAppends ==
    [][last'.op = "save_header" =>
         /\ files' # files => AtEnd
         /\ last'.r = "ok" => Extended
         /\ (last'.r = "ok" /\ \A i \in DOMAIN last'.log : last'.log[i].ret # "True")
               => Appended
         /\ ~AtEnd => /\ Failed([r |-> last'.r])
                      /\ UNCHANGED <<chains, files, blockchains>>]_vars

C11_Witness ==
    /\ last.op = "save_header"
    /\ last.r = "ok"
    /\ Swaps # {}
    /\ chains[last.chain]._size > last.at - max_checkpoint

\* fork was asked of a chain whose file exists, with a header above the
\* checkpoints
ForkAsked ==
    /\ last'.op = "fork"
    /\ exists(World, path(World, last'.chain))
    /\ last'.at > max_checkpoint

\* the object fork constructs
Forked == Len(chains) + 1

\* the chainwork up to the header given does not exceed the parent's at its tip
NotStronger ==
    LET below == get_chainwork(World, last'.chain, last'.at - 1)
        tip == get_chainwork_tip(World, last'.chain)
    IN  /\ ~Raised(below) /\ ~Raised(tip)
        /\ below + chainwork_of_header(last'.given[1]) <= tip

\* fork returned a chain that is registered under its id and holds the header
ForkReturned ==
    LET F == Forked
        header == read_header(World', F, last'.at)
    IN  /\ last'.r = "ok"
        /\ F \in DOMAIN chains'
        /\ get_id(World', F) \in DOMAIN blockchains'
        /\ blockchains'[get_id(World', F)] = F
        /\ IsHeader(header)
        /\ serialize_pure_header(header) = last'.data[1]
        /\ last'.chain \in Registered => last'.chain \in Registered'
        /\ NotStronger =>
               /\ chains'[F].forkpoint = last'.at
               /\ chains'[F].parent = last'.chain
               /\ Len(FileOf(World', F)) = 1

\* C13: fork raises and creates no file and no registry entry when the
\* parent cannot connect the header; otherwise it returns a chain that is
\* registered under its id, holds the header and leaves the parent
\* registered, and that has the header's height as forkpoint, the parent as
\* parent and a file of one record when the header does not make it stronger
\* than the parent.
C13_ForkContract ==
    [][ForkAsked =>
         IF can_connect(World, last'.chain, last'.given[1], FALSE, FALSE) # "True"
         THEN /\ Failed([r |-> last'.r])
              /\ DOMAIN files' = DOMAIN files
              /\ blockchains' = blockchains
         ELSE ForkReturned]_vars

\* the windows of ChunkSize headers that a chain has completed
CompleteWindows(c) == {k \in 0..MaxHeight : (k + 1) * ChunkSize - 1 <= height(World, c)}

\* entry k of the list is the checkpoint of window k
EntryOfWindow(c, cp, k) ==
    LET header == read_header(World, c, (k + 1) * ChunkSize - 1)
    IN  /\ IsHeader(header)
        /\ cp[k + 1].hash = hash_header(header)
        /\ cp[k + 1].chainwork = header.chainwork

\* C14: the list that get_checkpoints returns holds exactly one entry for
\* every completed window of the chain, in ascending order, with the hash
\* and the stored chainwork of the last header of the window.
C14_CheckpointPerWindow ==
    \A c \in Registered :
        With(get_checkpoints(World, c), LAMBDA res :
            res.r = "ok" =>
                /\ Len(res.cp) = Cardinality(CompleteWindows(c))
                /\ \A k \in CompleteWindows(c) : EntryOfWindow(c, res.cp, k))

\* the entries that get_checkpoints returns are the checkpoints of the
\* windows 0 .. height() // ChunkSize - 1
C14_ReturnedEntries ==
    \A c \in Registered :
        With(get_checkpoints(World, c), LAMBDA res :
            res.r = "ok" =>
                /\ Len(res.cp) = Max(0, height(World, c) \div ChunkSize)
                /\ \A k \in 0..(Len(res.cp) - 1) : EntryOfWindow(c, res.cp, k))

\* get_checkpoints returns entries
C14_Returns ==
    \E c \in Registered :
        With(get_checkpoints(World, c), LAMBDA res :
            res.r = "ok" /\ Len(res.cp) > 0)

\* every chain object with a parent starts above the checkpoints
AboveCheckpoints(w) ==
    \A c \in DOMAIN w.chains :
        w.chains[c].parent # 0 => w.chains[c].forkpoint > max_checkpoint

\* C15: every chain with a parent has its forkpoint above max_checkpoint
\* after every operation and after every swap inside it, and a fork with
\* 0 < forkpoint <= max_checkpoint is rejected and changes nothing.
C15_ForksAboveCheckpoints ==
    [][/\ AboveCheckpoints(World')
       /\ \A i \in DOMAIN last'.log : AboveCheckpoints(last'.log[i].after)
       /\ (last'.op = "fork" /\ 0 < last'.at /\ last'.at <= max_checkpoint) =>
              /\ Failed([r |-> last'.r])
              /\ UNCHANGED <<chains, files, blockchains>>]_vars

\* a fork at the last checkpoint that the parent can connect was rejected
C15_Witness ==
    /\ last.op = "fork"
    /\ last.at = max_checkpoint
    /\ Failed([r |-> last.r])
    /\ can_connect(World, last.chain, last.given[1], FALSE, FALSE) = "True"
    /\ \E c \in Registered : chains[c].parent # 0

\* the checks of instantiate_chain: the file name with the records recs is
\* accepted as a fork of the chain p
Accepts(w, p, name, recs, proofless) ==
    LET h == IF recs = <<>> THEN NoneHeader
             ELSE deserialize_disk_header(recs[1], name[1])
    IN  /\ name[1] > max_checkpoint
        /\ check_hash(w, p, name[1] - 1, name[2])
        /\ IsHeader(h)
        /\ hash_header(h) = name[3]
        /\ can_connect(w, p, h, FALSE, proofless) = "True"

RegisteredIn(w) == {w.blockchains[k] : k \in DOMAIN w.blockchains}

\* the file name is the file of a registered chain, which passed the checks
\* against a parent that was registered before it
RegisteredFork(w, name, recs, proofless) ==
    /\ name \in ForkFiles(w)
    /\ w.files[name] = recs
    /\ name[3] \in DOMAIN w.blockchains
    /\ LET c == w.blockchains[name[3]]
       IN  /\ path(w, c) = name
           /\ w.chains[c].forkpoint = name[1]
           /\ w.chains[c].parent \in RegisteredIn(w)
           /\ w.chains[c].parent < c
           /\ Accepts(w, w.chains[c].parent, name, recs, proofless)

\* C16: after read_blockchains every file that forks/ held is the file of a
\* registered chain (its forkpoint above the last checkpoint, its parent
\* registered earlier and holding prev_hash below the forkpoint, its first
\* header hashing to first_hash and connecting to the parent) or is deleted,
\* and forks/ holds no other file; a file is deleted only when no registered
\* chain passes these checks for it, in whatever order the files were read.
C16_ForkFilesRegisteredOrDeleted ==
    [][last'.op = "read_blockchains" =>
          /\ ForkFiles(World') \subseteq ForkFiles(World)
          /\ \A name \in ForkFiles(World) :
                \/ RegisteredFork(World', name, files[name], last'.proofless)
                \/ /\ name \notin DOMAIN files'
                   /\ \A p \in RegisteredIn(World') :
                         ~Accepts(World', p, name, files[name], last'.proofless)]_vars

\* what holds of the calls of read_blockchains that return
C16_WhenReadBlockchainsReturns ==
    [][(last'.op = "read_blockchains" /\ last'.r = "ok") =>
          /\ ForkFiles(World') \subseteq ForkFiles(World)
          /\ \A name \in ForkFiles(World) :
                \/ RegisteredFork(World', name, files[name], last'.proofless)
                \/ /\ name \notin DOMAIN files'
                   /\ \A p \in RegisteredIn(World') :
                         ~Accepts(World', p, name, files[name], last'.proofless)]_vars

\* read_blockchains returned and has registered a fork
C16_RegistersForks ==
    /\ last.op = "read_blockchains"
    /\ last.r = "ok"
    /\ \E c \in Registered : chains[c].parent # 0

\* C17: every registered chain has as its id the hash of the header it holds
\* at its forkpoint, also a parent that a swap has demoted, whatever the size
\* of the branch it is left with.
C17_IdIsHashAtForkpoint ==
    \A c \in Registered :
        get_id(World, c) = get_hash(World, c, chains[c].forkpoint)

\* the number of chains above c on its parent links
RECURSIVE AncestorsOf(_, _, _)
AncestorsOf(core, c, fuel) ==
    IF fuel = 0 \/ core.chains[c].parent = 0 THEN 0
    ELSE 1 + AncestorsOf(core, core.chains[c].parent, fuel - 1)

\* the progress check of swap_with_parent raised: the call ended with an
\* exception right after a swap
ProgressGuardRaised ==
    /\ last.r = "Exception"
    /\ last.log # <<>>
    /\ last.log[Len(last.log)].ret = "True"

\* C18: swap_with_parent ends: every swap gives the chain the parent that its
\* parent had, the call swaps at most as often as the chain had ancestors when
\* it began, and the progress check (more swaps than registered chains) never
\* raises, also when fork calls it for a chain that is not yet registered.
C18_SwapLoopEnds ==
    /\ \A i \in Swaps :
          LET e == last.log[i]
          IN  e.after.chains[e.self].parent = e.before.chains[e.parent].parent
    /\ last.log # <<>> =>
          Cardinality(Swaps)
            <= AncestorsOf(last.log[1].before, last.log[1].self, MaxChains + 1)
    /\ ~ProgressGuardRaised

\* what holds of the swaps of a call: each gives the chain the parent of its
\* parent, and there are no more of them than the chain had ancestors
C18_SwapsClimb ==
    /\ \A i \in Swaps :
          LET e == last.log[i]
          IN  e.after.chains[e.self].parent = e.before.chains[e.parent].parent
    /\ last.log # <<>> =>
          Cardinality(Swaps)
            <= AncestorsOf(last.log[1].before, last.log[1].self, MaxChains + 1)

\* the swaps of the last operation after which the loop of swap_with_parent
\* went on to its next call of _swap_with_parent
SwapsWithSiblings == {i \in Swaps : i + 1 \in DOMAIN last.log}

\* after the swap e and the loop over the former siblings, which leaves the
\* store as then: the chain s, a child of the old parent, has the swapped
\* chain as parent when that chain holds its _prev_hash, and else keeps its
\* parent; every other chain keeps the parent the swap gave it
SiblingsMoved(e, then, scope) ==
    \A s \in scope :
        IF s # e.self /\ e.before.chains[s].parent = e.parent
        THEN then.chains[s].parent =
                IF check_hash(then, e.self, then.chains[s].forkpoint - 1,
                              then.chains[s]._prev_hash)
                THEN e.self ELSE e.parent
        ELSE /\ then.chains[s].parent = e.after.chains[s].parent
             /\ s \notin {e.self, e.parent} =>
                   then.chains[s].parent = e.before.chains[s].parent

\* C19: after a chain has swapped with its parent, every chain that was a
\* direct child of that parent has the swapped chain as parent exactly when
\* check_hash of the swapped chain accepts its _prev_hash below its forkpoint,
\* and keeps the old parent otherwise; no other parent link changes.  The
\* chains are those registered when the swap begins.
C19_SiblingsFollowTheirPrevHash ==
    \A i \in SwapsWithSiblings :
        SiblingsMoved(last.log[i], last.log[i + 1].before,
                      RegisteredIn(last.log[i].before))

\* the same of the chains that are registered when the swap is done
C19_RegisteredSiblings ==
    \A i \in SwapsWithSiblings :
        SiblingsMoved(last.log[i], last.log[i + 1].before,
                      RegisteredIn(last.log[i].after))

\* the call e of _swap_with_parent failed on its assertion that the forkpoint
\* of the chain is above that of its parent
ForkpointAssertionFailed(e) ==
    /\ e.ret = "AssertionError"
    /\ e.parent # 0
    /\ ~(e.before.chains[e.self].forkpoint > e.before.chains[e.parent].forkpoint)

\* one registered chain has no parent, and its forkpoint is 0
OneRoot ==
    /\ \A c \in Registered : chains[c].parent = 0 => chains[c].forkpoint = 0
    /\ Cardinality({c \in Registered : chains[c].parent = 0}) <= 1

\* C20: after every operation each registered chain with a parent has its
\* forkpoint above the forkpoint of the parent, one chain has no parent and
\* forkpoint 0, and the assertion forkpoint > parent.forkpoint of
\* _swap_with_parent has not failed.
C20_ForkpointsAscend ==
    /\ \A c \in Registered :
          chains[c].parent # 0 =>
              chains[c].forkpoint > chains[chains[c].parent].forkpoint
    /\ OneRoot
    /\ \A i \in DOMAIN last.log : ~ForkpointAssertionFailed(last.log[i])

\* what holds of the chains without a parent
C20_OneRoot == OneRoot

\* connect_chunk has saved a chunk of the checkpoint region
RegionChunkSaved ==
    /\ last'.op = "connect_chunk"
    /\ last'.r = "True"
    /\ last'.at < NumCheckpoints * ChunkSize

\* C21: save_chunk of a chunk in the checkpoint region, called on a fork,
\* writes the file of the best chain and leaves the file of the fork as it
\* was; the file of the best chain does not shrink, and its records outside
\* the heights of the chunk are unchanged.
C21_RegionChunkGoesToBestChain ==
    [][RegionChunkSaved =>
          LET c == last'.chain
              best == path(World, get_best_chain(World))
              covered == last'.at .. (last'.at + Len(last'.data) - 1)
          IN  /\ best \in DOMAIN files /\ best \in DOMAIN files'
              /\ \A name \in DOMAIN files \ {best} :
                    name \in DOMAIN files' /\ files'[name] = files[name]
              /\ DOMAIN files' = DOMAIN files
              /\ Len(files'[best]) >= Len(files[best])
              /\ \A h \in covered :
                    PureBytes(files'[best][h + 1]) = last'.data[h - last'.at + 1]
              /\ \A i \in 1..Len(files'[best]) :
                    (i - 1) \notin covered =>
                        files'[best][i] = IF i <= Len(files[best])
                                          THEN files[best][i] ELSE ZeroRecord]_vars

\* a fork was given a chunk of the checkpoint region while the best chain
\* held headers above the region
C21_Witness ==
    /\ last.op = "connect_chunk"
    /\ last.r = "True"
    /\ last.at < NumCheckpoints * ChunkSize
    /\ last.data # <<>>
    /\ ~last.same
    /\ chains[last.chain].parent # 0
    /\ Len(files[BestFile]) > NumCheckpoints * ChunkSize
    /\ path(World, last.chain) \in DOMAIN files

\* connect_chunk has saved a chunk above the checkpoint region
UpperChunkSaved ==
    /\ last'.op = "connect_chunk"
    /\ last'.r = "True"
    /\ last'.at >= NumCheckpoints * ChunkSize
    /\ last'.log # <<>>

\* C22: save_chunk of n headers above the checkpoint region on a chain: when
\* the write is done and no swap yet, the file of the chain holds the headers
\* of the chunk from the forkpoint (or the first height of the chunk) on and
\* nothing above them, its records below the write offset are unchanged, the
\* headers of the chunk below the forkpoint are dropped, and no other file is
\* written.
C22_UpperChunkReplacesTail ==
    [][UpperChunkSaved =>
          LET c == last'.chain
              written == last'.log[1].before
              name == path(World, c)
              fp == chains[c].forkpoint
              first == Max(fp, last'.at)
              end == last'.at + Len(last'.data)
              offset == first - fp
          IN  /\ name \in DOMAIN files /\ DOMAIN written.files = DOMAIN files
              /\ written.chains[c].forkpoint = fp
              /\ path(written, c) = name
              /\ \A other \in DOMAIN files \ {name} :
                    written.files[other] = files[other]
              /\ Len(written.files[name]) = Max(first, end) - fp
              /\ written.chains[c]._size = Len(written.files[name])
              /\ \A h \in first..(end - 1) :
                    PureBytes(written.files[name][h - fp + 1])
                        = last'.data[h - last'.at + 1]
              /\ \A i \in 1..offset :
                    written.files[name][i] = IF i <= Len(files[name])
                                             THEN files[name][i] ELSE ZeroRecord]_vars

\* a chunk that straddles the forkpoint was saved on a fork that held
\* headers above the chunk's
C22_Witness ==
    /\ last.op = "connect_chunk"
    /\ last.r = "True"
    /\ last.at >= NumCheckpoints * ChunkSize
    /\ last.log # <<>>
    /\ last.data # <<>>
    /\ last.log[1].before.chains[last.chain].parent # 0
    /\ last.log[1].before.chains[last.chain].forkpoint > last.at

\* ------------------------------------------------------ difficulty lookups
\* extra_blocks: nothing, or one header held in memory
ExtraBlocks ==
    {<<>>} \cup {(h :> MakeHeader(h, BadPrev, fl)) : h \in Heights, fl \in Good}

LookupAlgos == Algos \cup {UnknownAlgo}

\* difficulty_data_for_block is asked on a chain
DifficultyData ==
    /\ Ready
    /\ \E c \in Objects, algo \in LookupAlgos, h \in (-1)..MaxHeight,
          extra_blocks \in ExtraBlocks :
        With(difficulty_data_for_block(World, c, algo, h, extra_blocks), LAMBDA d :
            Done("difficulty_data_for_block", c,
                 Ret(World, IF IsExc(d) THEN d.e
                            ELSE IF d = NoneData THEN "None" ELSE "data"),
                 FALSE,
                 [at |-> h, from |-> algo, given |-> <<d>>, data |-> extra_blocks]))

\* verify_chunk is asked on a chain
VerifyChunk ==
    /\ Ready
    /\ \E c \in Objects, idx \in ChunkIndexes, fls \in ChunkShapes :
        With(ChunkFor(World, c, idx, fls), LAMBDA data :
        With(verify_chunk(World, c, idx, data), LAMBDA v :
            Done("verify_chunk", c, Ret(World, v.r), v.r = "ok",
                 [at |-> idx * ChunkSize, from |-> idx * ChunkSize,
                  given |-> data, data |-> IF v.r = "ok" THEN v.data ELSE <<>>])))

NextDifficulty ==
    \/ ReadBlockchains
    \/ InitHeadersFile
    \/ LeftOnTip
    \/ ForkOnTip
    \/ DifficultyData
    \/ VerifyChunk

SpecDifficulty == Init /\ [][NextDifficulty]_vars

DifficultyAsked == last.op = "difficulty_data_for_block"

\* the header at a height as the lookup sees it: extra_blocks first
Seen(h) ==
    IF h \in DOMAIN last.data THEN last.data[h]
    ELSE read_header(World, last.chain, h)

\* the heights at or below the one asked where the walk down ends: a header
\* of the algorithm, or no header
WalkEnds ==
    {h \in 0..last.at : ~(IsHeader(Seen(h)) /\ Seen(h).algo # last.from)}

Greatest(S) == CHOOSE h \in S : \A o \in S : o <= h

\* the entries of the checkpoint of height h for the algorithm asked, at or
\* below h
ListedAtMost(h) ==
    IF last.from \notin Algos THEN {}
    ELSE LET algo_headers == CHECKPOINTS(h \div ChunkSize).algo_headers[last.from]
         IN  {algo_headers[i] : i \in {j \in 1..Len(algo_headers) :
                                          algo_headers[j].height <= h}}

GreatestListed(h, d) ==
    /\ d \in ListedAtMost(h)
    /\ \A o \in ListedAtMost(h) : o.height <= d.height

\* C23 as stated: difficulty_data_for_block returns the data of the greatest
\* height at or below h whose header, extra_blocks first, has the algorithm,
\* None when the walk passes below 0, the greatest listed entry of the
\* checkpoint at or below an absent header inside the checkpoint region, and
\* raises MissingHeader at an absent header above max_checkpoint.
C23_DifficultyDataAsStated ==
    DifficultyAsked =>
        LET d == last.given[1]
        IN  IF WalkEnds = {} THEN d = NoneData
            ELSE LET g == Greatest(WalkEnds)
                 IN  IF IsHeader(Seen(g))
                     THEN d = [k |-> "data", height |-> g, bits |-> Seen(g).pbits]
                     ELSE IF g > max_checkpoint THEN d = Exc("MissingHeader")
                     ELSE GreatestListed(g, d)

\* C23, amended: as stated, and the lookup in the checkpoint raises
\* MissingHeader when no listed height is at or below the absent header and
\* KeyError when the checkpoint lists nothing for the algorithm; an exception
\* raised by read_header leaves the call.
C23_DifficultyData ==
    DifficultyAsked =>
        LET d == last.given[1]
        IN  IF WalkEnds = {} THEN d = NoneData
            ELSE LET g == Greatest(WalkEnds)
                 IN  IF IsHeader(Seen(g))
                     THEN d = [k |-> "data", height |-> g, bits |-> Seen(g).pbits]
                     ELSE IF IsExc(Seen(g)) THEN d = Seen(g)
                     ELSE IF g > max_checkpoint THEN d = Exc("MissingHeader")
                     ELSE IF last.from \notin Algos THEN d = Exc("KeyError")
                     ELSE IF ListedAtMost(g) = {} THEN d = Exc("MissingHeader")
                     ELSE GreatestListed(g, d)

\* the walk passed a header of another algorithm held in extra_blocks, met
\* an absent header inside the checkpoint region and answered from the
\* checkpoint
C23_Witness ==
    /\ DifficultyAsked
    /\ last.r = "data"
    /\ last.data # <<>>
    /\ WalkEnds # {}
    /\ Greatest(WalkEnds) < last.at
    /\ ~IsHeader(Seen(Greatest(WalkEnds)))
    /\ last.given[1].height < Greatest(WalkEnds)

VerifyAsked == last.op = "verify_chunk"

\* the header at offset i of the chunk given to verify_chunk
Given(i) == deserialize_full_header(last.given[i + 1], last.at + i)

\* the headers of the chunk at offsets below i, by height
EarlierOf(i) == [h \in last.at..(last.at + i - 1) |-> Given(h - last.at)]

PrevOf(i) ==
    IF i = 0 THEN get_hash(World, last.chain, last.at - 1)
    ELSE hash_header(Given(i - 1))

ExpectedHashOf(i) ==
    LET got == get_hash(World, last.chain, last.at + i)
    IN  IF got = MissingHeader THEN NoHash ELSE got

\* every header of the chunk passes verify_header against the target looked
\* up in the headers before it in the chunk and then in the file
PassesWithEarlier ==
    /\ ~Raised(get_hash(World, last.chain, last.at - 1))
    /\ ~Raised(get_chainwork(World, last.chain, last.at - 1))
    /\ \A i \in 0..(Len(last.given) - 1) :
          /\ IsHeader(Given(i))
          /\ ExpectedHashOf(i) # OtherException
          /\ ~Raised(get_expected_target(World, last.chain, Given(i), EarlierOf(i)))
          /\ verify_header(Given(i), PrevOf(i),
                           get_expected_target(World, last.chain, Given(i),
                                               EarlierOf(i)),
                           ExpectedHashOf(i), FALSE) = "ok"
          /\ ~Raised(chainwork_of_header(Given(i)))

\* the offsets whose predecessor is a header of the chunk above both
\* max_checkpoint and the tip of the chain
PastTip ==
    {i \in 1..(Len(last.given) - 1) :
        /\ \A j \in 0..i : IsHeader(Given(j))
        /\ last.at > max_checkpoint
        /\ last.at + i - 1 > height(World, last.chain)}

\* C24: verify_chunk accepts a chunk exactly when each header passes against
\* the target looked up with the headers at lower offsets of the chunk in
\* memory, the file being as it was before the call; above max_checkpoint
\* and past the tip the same lookup without them raises MissingHeader.
C24_TargetsSeeEarlierHeaders ==
    VerifyAsked =>
        /\ (last.r = "ok") <=> PassesWithEarlier
        /\ \A i \in PastTip :
              /\ get_expected_target(World, last.chain, Given(i), <<>>) = MissingHeader
              /\ last.r = "ok" =>
                    ~Raised(get_expected_target(World, last.chain, Given(i),
                                                EarlierOf(i)))

\* an accepted chunk whose second header needed the first for its target
C24_Witness ==
    /\ VerifyAsked
    /\ last.r = "ok"
    /\ PastTip # {}

\* ---------------------------------------------------- verify_header alone
\* headers at a checkpoint height and above, with each mix of flaws
VerifyHeaders ==
    [k : {"hdr"}, block_height : {max_checkpoint, max_checkpoint + 1},
     prev_block_hash : {GENESIS, BadPrev}, nonce : {1}, bits : {0, 1},
     algo : {ALGO_SHA256D}, pbits : {PowLimitBits(ALGO_SHA256D), WrongBits},
     proof : {"valid", "invalid"}, chainwork : {0}]

VerifyTargets ==
    {bits_to_target(PowLimitBits(ALGO_SHA256D)), bits_to_target(WrongBits)}

\* verify_header is called on some network
AskVerifyHeader ==
    /\ calc.step = "idle"
    /\ \E testnet \in BOOLEAN, header \in VerifyHeaders, target \in VerifyTargets,
          skip_auxpow \in BOOLEAN :
        \E expected_header_hash \in
                {NoHash, hash_header(header), hash_header(header) + 1} :
            calc' = [step |-> "verify", testnet |-> testnet, header |-> header,
                     prev_hash |-> GENESIS, target |-> target,
                     expected_header_hash |-> expected_header_hash,
                     skip_auxpow |-> skip_auxpow]
    /\ UNCHANGED <<chains, files, blockchains, last, prog, held, run>>

VerifyHeader ==
    /\ calc.step = "verify"
    /\ calc' = [calc EXCEPT !.step = "verified"]
                @@ [r |-> verify_header_net(calc.testnet, calc.header,
                                            calc.prev_hash, calc.target,
                                            calc.expected_header_hash,
                                            calc.skip_auxpow)]
    /\ UNCHANGED <<chains, files, blockchains, last, prog, held, run>>

NextVerify ==
    \/ AskVerifyHeader
    \/ VerifyHeader

SpecVerify == Init /\ [][NextVerify]_vars

\* C25: verify_header raises exactly when the expected hash is given and
\* differs, or the previous hash differs, or the pure bits are not zero, or,
\* off testnet, the compact target differs from the powdata bits or the
\* header is above max_checkpoint, auxpow is not skipped and the proof of
\* work fails; so non-zero pure bits are rejected on every network and on
\* testnet neither target nor proof is checked.
C25_VerifyHeaderRaisesExactlyWhen ==
    calc.step = "verified" =>
        LET H == calc.header
        IN  (calc.r # "ok") <=>
                \/ /\ calc.expected_header_hash # NoHash
                   /\ calc.expected_header_hash # hash_header(H)
                \/ H.prev_block_hash # calc.prev_hash
                \/ H.bits # 0
                \/ /\ ~calc.testnet
                   /\ \/ target_to_bits(calc.target) # H.pbits
                      \/ /\ H.block_height > max_checkpoint
                         /\ ~calc.skip_auxpow
                         /\ ~powdata_verify(H)

\* on testnet a header with non-zero pure bits, the right hashes and a valid
\* proof was rejected
C25_Witness ==
    /\ calc.step = "verified"
    /\ calc.testnet
    /\ calc.r # "ok"
    /\ calc.header.bits # 0
    /\ calc.header.prev_block_hash = calc.prev_hash
    /\ calc.expected_header_hash = hash_header(calc.header)

\* ------------------------------------------- a swap, statement by statement
\* swap_with_parent holds the lock of its chain and blockchains_lock from its
\* first statement to its return; the lock of the parent is taken only inside
\* the calls of the parent's locked methods.  Another thread runs between two
\* statements; a call of it is taken as one step.
StartWorld == [chains |-> run.start.chains, files |-> run.start.files,
               blockchains |-> run.start.blockchains, log |-> <<>>]

\* the swap goes on: no other thread has read yet
Swapping(pc) == run.pc = pc /\ run.read = NoRead

Step(w, pc) ==
    /\ Install(w)
    /\ run' = [run EXCEPT !.pc = pc]
    /\ UNCHANGED last

\* swap_with_parent returns or raises
Finish(r) ==
    /\ run' = Idle
    /\ last' = [last EXCEPT !.r = r]
    /\ UNCHANGED <<chains, files, blockchains, prog, held, calc>>

\* save_header has written the header and enters swap_with_parent
SaveHeaderWrites ==
    /\ Ready
    /\ \E c \in Objects, fl \in Good :
        With(HeaderFor(World, c, height(World, c) + 1, fl), LAMBDA header :
        With(save_header_write(World, c, header), LAMBDA res :
            /\ Record("save_header", c, res, FALSE,
                      [at |-> header.block_height, from |-> header.block_height,
                       given |-> <<header>>,
                       data |-> <<PureBytes(serialize_disk_header(header))>>])
            /\ run' = IF Failed(res) THEN Idle
                      ELSE [Idle EXCEPT !.pc = "check", !.self = c]))

\* _swap_with_parent: the two early returns and the locals
SwapCheck ==
    /\ Swapping("check")
    /\ LET c == run.self
           p == chains[c].parent
       IN  IF p = 0 THEN Finish("ok")
           ELSE With(get_chainwork_tip(World, p), LAMBDA pw :
                With(get_chainwork_tip(World, c), LAMBDA sw :
                    IF Raised(pw) THEN Finish(ExcName(pw))
                    ELSE IF Raised(sw) THEN Finish(ExcName(sw))
                    ELSE IF pw >= sw THEN Finish("ok")
                    ELSE /\ run' = [run EXCEPT
                                !.pc = "files",
                                !.start = Core(World),
                                !.loc = [parent |-> p,
                                         parent_branch_size |->
                                             height(World, p) - chains[c].forkpoint + 1,
                                         forkpoint |-> chains[c].forkpoint,
                                         child_old_id |-> get_id(World, c),
                                         parent_old_id |-> get_id(World, p)]]
                         /\ UNCHANGED <<chains, files, blockchains, last, prog,
                                        held, calc>>))

\* the two files are read
SwapReadFiles ==
    /\ Swapping("files")
    /\ LET c == run.self
           p == run.loc.parent
           child_old_name == path(World, c)
           parent_name == path(World, p)
           offset == run.loc.forkpoint - chains[p].forkpoint
       IN  IF child_old_name = PathError THEN Finish("AssertionError")
           ELSE IF ~exists(World, child_old_name) THEN Finish("FileNotFoundError")
           ELSE IF parent_name = PathError THEN Finish("AssertionError")
           ELSE IF ~exists(World, parent_name) THEN Finish("FileNotFoundError")
           ELSE IF ~(run.loc.forkpoint > chains[p].forkpoint)
           THEN Finish("AssertionError")
           ELSE /\ run' = [run EXCEPT
                       !.pc = "write_child",
                       !.loc = [child_old_name |-> child_old_name,
                                my_data |-> files[child_old_name],
                                parent_data |->
                                    ReadAt(files[parent_name], offset,
                                           run.loc.parent_branch_size)]
                               @@ run.loc]
                /\ UNCHANGED <<chains, files, blockchains, last, prog, held, calc>>

\* self.write(parent_data, 0)
SwapWriteChild ==
    /\ Swapping("write_child")
    /\ Step(write(World, run.self, run.loc.parent_data, 0, TRUE).w, "write_parent")

\* parent.write(my_data, (forkpoint - parent.forkpoint)*DISK_HEADER_SIZE)
SwapWriteParent ==
    /\ Swapping("write_parent")
    /\ Step(write(World, run.loc.parent, run.loc.my_data,
                  run.loc.forkpoint - chains[run.loc.parent].forkpoint, TRUE).w,
            "parents")

\* self.parent, parent.parent = parent.parent, self
SwapParents ==
    /\ Swapping("parents")
    /\ Step([World EXCEPT !.chains[run.self].parent = chains[run.loc.parent].parent,
                          !.chains[run.loc.parent].parent = run.self],
            "forkpoints")

\* self.forkpoint, parent.forkpoint = parent.forkpoint, self.forkpoint
SwapForkpoints ==
    /\ Swapping("forkpoints")
    /\ Step([World EXCEPT
                !.chains[run.self].forkpoint = chains[run.loc.parent].forkpoint,
                !.chains[run.loc.parent].forkpoint = chains[run.self].forkpoint],
            "forkpoint_hashes")

\* self._forkpoint_hash, parent._forkpoint_hash = ...
SwapForkpointHashes ==
    /\ Swapping("forkpoint_hashes")
    /\ Step([World EXCEPT
                !.chains[run.self]._forkpoint_hash =
                    chains[run.loc.parent]._forkpoint_hash,
                !.chains[run.loc.parent]._forkpoint_hash =
                    hash_raw_header(IF run.loc.parent_data = <<>> THEN <<>>
                                    ELSE PureBytes(run.loc.parent_data[1]))],
            "prev_hashes")

\* self._prev_hash, parent._prev_hash = parent._prev_hash, self._prev_hash
SwapPrevHashes ==
    /\ Swapping("prev_hashes")
    /\ Step([World EXCEPT
                !.chains[run.self]._prev_hash = chains[run.loc.parent]._prev_hash,
                !.chains[run.loc.parent]._prev_hash = chains[run.self]._prev_hash],
            "replace")

\* os.replace(child_old_name, parent.path())
SwapReplace ==
    /\ Swapping("replace")
    /\ Step([World EXCEPT !.files =
                Replace(files, run.loc.child_old_name, path(World, run.loc.parent))],
            "size_child")

\* self.update_size()
SwapSizeChild ==
    /\ Swapping("size_child")
    /\ Step(update_size(World, run.self), "size_parent")

\* parent.update_size()
SwapSizeParent ==
    /\ Swapping("size_parent")
    /\ Step(update_size(World, run.loc.parent), "pop_child")

\* blockchains.pop(child_old_id, None)
SwapPopChild ==
    /\ Swapping("pop_child")
    /\ Step([World EXCEPT !.blockchains = Pop(blockchains, run.loc.child_old_id)],
            "pop_parent")

\* blockchains.pop(parent_old_id, None)
SwapPopParent ==
    /\ Swapping("pop_parent")
    /\ Step([World EXCEPT !.blockchains = Pop(blockchains, run.loc.parent_old_id)],
            "set_child")

\* blockchains[self.get_id()] = self
SwapSetChild ==
    /\ Swapping("set_child")
    /\ Step([World EXCEPT !.blockchains =
                (get_id(World, run.self) :> run.self) @@ blockchains],
            "set_parent")

\* blockchains[parent.get_id()] = parent; return True
SwapSetParent ==
    /\ Swapping("set_parent")
    /\ Step([World EXCEPT !.blockchains =
                (get_id(World, run.loc.parent) :> run.loc.parent) @@ blockchains],
            "progress")

\* back in swap_with_parent: the progress guard, the former siblings, and
\* the next turn of the loop
SwapProgress ==
    /\ Swapping("progress")
    /\ IF run.cnt + 1 > Cardinality(DOMAIN blockchains) THEN Finish("Exception")
       ELSE IF \E s \in get_direct_children(World, run.loc.parent) :
                   chains[s]._prev_hash = NoHash
       THEN Finish("AssertionError")
       ELSE /\ Install(Reparent(World, run.self, run.loc.parent))
            /\ run' = [run EXCEPT !.pc = "check", !.cnt = run.cnt + 1]
            /\ UNCHANGED last

\* _swap_with_parent has decided to swap and has not returned
InSwap == run.pc \notin {"idle", "check", "progress"}

ReadOps == {"read_header", "get_hash", "get_chainwork"}

\* the chains whose lock read_header(h) on chain x takes
RECURSIVE LocksOfRead(_, _, _, _)
LocksOfRead(w, x, h, fuel) ==
    {x} \cup IF h >= 0 /\ h < w.chains[x].forkpoint /\ w.chains[x].parent # 0
                /\ fuel > 0
             THEN LocksOfRead(w, w.chains[x].parent, h, fuel - 1)
             ELSE {}

ReadOf(op, w, x, h) ==
    IF op = "read_header" THEN read_header(w, x, h)
    ELSE IF op = "get_hash" THEN [k |-> "value", v |-> get_hash(w, x, h)]
    ELSE [k |-> "value", v |-> get_chainwork(w, x, h)]

\* another thread reads the child or the parent; the lock of the child is
\* held by the swap
ReadDuringSwap ==
    /\ InSwap
    /\ run.read = NoRead
    /\ \E x \in {run.self, run.loc.parent}, op \in ReadOps, h \in Heights :
        /\ run.self \notin LocksOfRead(World, x, h, MaxChains)
        /\ run' = [run EXCEPT !.read =
                      [op |-> op, chain |-> x, h |-> h,
                       got |-> ReadOf(op, World, x, h),
                       was |-> ReadOf(op, StartWorld, x, h)]]
    /\ UNCHANGED <<chains, files, blockchains, last, prog, held, calc>>

KeyError == -1

\* another thread calls get_best_chain(), which takes no lock
GetBestChainDuringSwap ==
    /\ InSwap
    /\ run.read = NoRead
    /\ run' = [run EXCEPT !.read =
                  [op |-> "get_best_chain",
                   got |-> IF GENESIS \in DOMAIN blockchains
                           THEN blockchains[GENESIS] ELSE KeyError]]
    /\ UNCHANGED <<chains, files, blockchains, last, prog, held, calc>>

NextSwap ==
    \/ ReadBlockchains
    \/ InitHeadersFile
    \/ SaveHeader
    \/ Fork
    \/ SaveHeaderWrites
    \/ SwapCheck
    \/ SwapReadFiles
    \/ SwapWriteChild
    \/ SwapWriteParent
    \/ SwapParents
    \/ SwapForkpoints
    \/ SwapForkpointHashes
    \/ SwapPrevHashes
    \/ SwapReplace
    \/ SwapSizeChild
    \/ SwapSizeParent
    \/ SwapPopChild
    \/ SwapPopParent
    \/ SwapSetChild
    \/ SwapSetParent
    \/ SwapProgress
    \/ ReadDuringSwap
    \/ GetBestChainDuringSwap

SpecSwap == Init /\ [][NextSwap]_vars

\* the statements of a swap, taken one by one, leave what _swap_with_parent
\* taken as a whole leaves
SwapStepsAgree ==
    run.pc = "progress" => Core(World) = Core(DoSwap(StartWorld, run.self).w)

\* C26: get_best_chain() called by another thread while a swap runs returns
\* a registered chain whose parent is None: it does not fail on a missing
\* genesis key and does not return the chain that the swap has demoted.
C26_BestChainDuringSwap ==
    run.read.op = "get_best_chain" =>
        /\ run.read.got # KeyError
        /\ \E k \in DOMAIN blockchains : blockchains[k] = run.read.got
        /\ chains[run.read.got].parent = 0

\* C27: read_header, get_hash and get_chainwork called by another thread on
\* the child or the parent while _swap_with_parent runs return what the
\* chain held before the swap.
C27_SwapAtomicForReaders ==
    run.read.op \in ReadOps => run.read.got = run.read.was

\* the number of records in the file of a chain
RecordsOf(w, c) ==
    IF path(w, c) \in DOMAIN w.files THEN Len(w.files[path(w, c)]) ELSE 0

\* C28: fork(parent, H) leaves the headers of every chain registered before
\* the call as they were: read_header(h) returns the same at every height,
\* and the cached size of the chain is the number of records in its file;
\* also when the id hash_header(H) is registered already.
C28_ForkLeavesOtherChains ==
    [][last'.op = "fork" =>
          \A c \in RegisteredIn(World) :
              /\ c \in DOMAIN chains'
              /\ \A h \in Heights : read_header(World', c, h) = read_header(World, c, h)
              /\ chains'[c]._size = RecordsOf(World', c)]_vars

\* C12: for every compact value that bits_to_target accepts,
\* target_to_bits(bits_to_target(bits)) is bits.
C12_CompactRoundTrip ==
    calc.step = "bits" => calc.back = calc.bits

\* the round trip of the values whose target leaves the first byte of the
\* 32 zero: every exponent below 0x20, and 0x20 with a mantissa below 0x10000
C12_RoundTripBelowTopByte ==
    (calc.step = "bits" /\ calc.target[1] = 0) => calc.back = calc.bits

\* bits_to_target raises outside the two ranges and only there, and the hex
\* digits are those of the number where the model can hold the number
C12_TargetOfBits ==
    /\ calc.step = "raised" => Raised(bits_to_target(calc.bits))
    /\ (calc.step = "target" /\ calc.bits < 4 * 16777216) =>
           Hex64(bits_to_target(calc.bits)) = calc.target

\* the thread waits for a lock that another thread owns
Blocked(t) ==
    /\ prog[t] # <<>>
    /\ Head(prog[t]).a = "acq"
    /\ held[Head(prog[t]).l].owner \notin {0, t}

\* C6: concurrent calls of save_header, save_chunk, read_header,
\* get_chainwork, get_parent_heights and get_branch_size on a chain and on
\* its parent take their locks in one order and so never all wait for each
\* other.
C6_NeverDeadlocks ==
    ~(\A t \in Threads : Blocked(t))

====
